---- MODULE Spec2Model ----
(***************************************************************************)
(* Streaming response relay and session-scoped conversation store of the   *)
(* Kindle AI Chat server (src/src/lib.rs): the chat handler's event        *)
(* stream, the spawned generation task (call_llm_for_streaming), the flush *)
(* scheduler (process_sse_events) with its interval task, and the          *)
(* per-session history file.                                               *)
(*                                                                         *)
(* Text is a sequence of one-character strings; "" is <<>>.                *)
(***************************************************************************)
EXTENDS Integers, Sequences, FiniteSets, TLC

\* ------------------------------------------------------------------ bounds
\* Text deltas the generator hands to the SseHandler in one turn.
MaxDeltas == 3
\* Ticks the interval task fires in one turn of the untimed specification.
MaxTicks == 2
\* Text deltas of a schedule of the timed specification.
MaxSched == 4
\* The turns of the store specification.
MaxTurns == 2
\* The messages of a history given to the store's functions.
MaxMsgs == 3
\* The UUIDs the generator can produce.
MaxIds == 3
\* The seconds the wall clock advances during the life of one history.
MaxClock == 2
\* The deltas of each of two concurrent streams.
MaxStreamDeltas == 2
\* The longest chunk given to html_escape on its own.
MaxEscLen == 2

\* ------------------------------------------------------- program constants
\* mpsc::channel(32): capacity of the chunk channel.
ChunkCap == 32
\* mpsc::channel::<()>(1): capacity of the flush-signal channel.
FlushCap == 1
\* process_sse_events(.., Some(100)): the flush interval, in milliseconds.
DelayMs == 100

\* -------------------------------------------------------------------- text
RECURSIVE Concat(_)
\* The concatenation of a sequence of texts.
Concat(ss) ==
    IF ss = <<>> THEN <<>> ELSE Head(ss) \o Concat(Tail(ss))

IsPrefix(a, b) ==
    /\ Len(a) <= Len(b)
    /\ SubSeq(b, 1, Len(a)) = a

RECURSIVE replace(_, _, _)
\* str::replace(from, to) for a one-character pattern.
replace(s, from, to) ==
    IF s = <<>> THEN <<>>
    ELSE (IF Head(s) = from THEN to ELSE <<Head(s)>>) \o replace(Tail(s), from, to)

\* html_escape with the replacement of & made last instead of first.
html_escape_AmpLast(s) ==
    replace(replace(replace(replace(replace(s,
        "<", <<"&", "l", "t", ";">>),
        ">", <<"&", "g", "t", ";">>),
        "\"", <<"&", "q", "u", "o", "t", ";">>),
        "'", <<"&", "#", "x", "2", "7", ";">>),
        "&", <<"&", "a", "m", "p", ";">>)

\* The html_escape closure of chat: five replaces, & first.
html_escape(s) ==
    replace(replace(replace(replace(replace(s,
        "&", <<"&", "a", "m", "p", ";">>),
        "<", <<"&", "l", "t", ";">>),
        ">", <<"&", "g", "t", ";">>),
        "\"", <<"&", "q", "u", "o", "t", ";">>),
        "'", <<"&", "#", "x", "2", "7", ";">>)

\* ------------------------------------------------------ conversation store
ConversationMessage(role, content, timestamp) ==
    [role |-> role, content |-> content, timestamp |-> timestamp]

\* ConversationHistory::new at wall-clock second t.
new(session_id, t) ==
    [session_id |-> session_id, messages |-> <<>>, created_at |-> t, updated_at |-> t]

\* add_message with the new message put in front of the others.
add_message_Prepends(h, role, content, t) ==
    [h EXCEPT !.messages = <<ConversationMessage(role, content, t)>> \o @,
              !.updated_at = t]

\* add_message without the assignment to updated_at.
add_message_KeepsUpdatedAt(h, role, content, t) ==
    [h EXCEPT !.messages = Append(@, ConversationMessage(role, content, t))]

\* ConversationHistory::add_message at wall-clock second t.
add_message(h, role, content, t) ==
    [h EXCEPT !.messages = Append(@, ConversationMessage(role, content, t)),
              !.updated_at = t]

\* The file data/<session_id>.json: absent, unparseable, or a serialized history.
Missing == [kind |-> "missing", value |-> new("", 0)]
Corrupt == [kind |-> "corrupt", value |-> new("", 0)]
Stored(h) == [kind |-> "json", value |-> h]

\* load_from_file with a missing file reported as an error.
load_from_file_MissingIsError(f, session_id, t) ==
    IF f.kind = "missing" THEN [ok |-> FALSE, history |-> new(session_id, t)]
    ELSE IF f.kind = "corrupt" THEN [ok |-> FALSE, history |-> new(session_id, t)]
    ELSE [ok |-> TRUE, history |-> [f.value EXCEPT !.session_id = session_id]]

\* load_from_file with an unparseable record reported like a missing one.
load_from_file_CorruptIsMissing(f, session_id, t) ==
    IF f.kind = "missing" THEN [ok |-> TRUE, history |-> new(session_id, t)]
    ELSE IF f.kind = "corrupt" THEN [ok |-> TRUE, history |-> new(session_id, t)]
    ELSE [ok |-> TRUE, history |-> [f.value EXCEPT !.session_id = session_id]]

\* load_from_file without the assignment of the requested session id.
load_from_file_KeepsStoredId(f, session_id, t) ==
    IF f.kind = "missing" THEN [ok |-> TRUE, history |-> new(session_id, t)]
    ELSE IF f.kind = "corrupt" THEN [ok |-> FALSE, history |-> new(session_id, t)]
    ELSE [ok |-> TRUE, history |-> f.value]

\* ConversationHistory::load_from_file: Ok(history) or Err.
load_from_file(f, session_id, t) ==
    IF f.kind = "missing" THEN [ok |-> TRUE, history |-> new(session_id, t)]
    ELSE IF f.kind = "corrupt" THEN [ok |-> FALSE, history |-> new(session_id, t)]
    ELSE [ok |-> TRUE, history |-> [f.value EXCEPT !.session_id = session_id]]

\* The handlers' `match load_from_file { Ok(h) => h, Err(_) => new(..) }`.
load_or_new(f, session_id, t) ==
    LET r == load_from_file(f, session_id, t)
    IN  IF r.ok THEN r.history ELSE new(session_id, t)

\* ConversationHistory::save_to_file: what the file holds afterwards when the
\* write succeeds ("ok"), fails before the file is opened ("fail": unchanged),
\* or fails after fs::write truncated it ("partial": unparseable).
SaveOutcomes == {"ok", "fail", "partial"}
save_to_file(f, h, outcome) ==
    IF outcome = "ok" THEN Stored(h)
    ELSE IF outcome = "fail" THEN f
    ELSE Corrupt

\* ------------------------------------------------------------------ inputs
Sid == "s1"
UserMsg == <<"q">>
Placeholder == <<"[Aborted by client]">>
\* The text of a generator error.
GenErrorText == <<"E", "&">>
\* The deltas a generator may produce as its i-th: the empty delta, or one
\* character that tells it from its neighbours and may need escaping.
Alphabet == <<"a", "<", "&", "b">>
DeltaSet(i) == {<<>>, <<Alphabet[((i - 1) % Len(Alphabet)) + 1]>>}
\* What the session's file may hold when the request arrives.
InitFiles ==
    {Missing, Corrupt,
     Stored(add_message(new(Sid, 0), "assistant", <<"p">>, 0))}

Text(t) == [type |-> "Text", text |-> t]
Done == [type |-> "Done", text |-> <<>>]

\* The events of the stream.
StartEvent == [event |-> "trigger", data |-> <<"sse-start">>]
EndEvent == [event |-> "trigger", data |-> <<"sse-end">>]
MessageEvent(chunk) ==
    [event |-> "message", data |-> <<"<span>">> \o html_escape(chunk) \o <<"</span>">>]
ErrorEvent(e) ==
    [event |-> "message",
     data |-> <<"<span>Error: ">> \o html_escape(e) \o <<"</span>">>]

VARIABLES
    file,             \* data/<Sid>.json
    history,          \* chat: `history`, the handler's in-memory copy
    abort_signal,     \* AbortSignal::aborted() of this stream
    events,           \* events yielded to the client so far
    em_pc,            \* position of the EventStream generator
    chunk_rx,         \* chunk channel: chunks sent and not yet received
    rx_alive,         \* chunk_rx not dropped
    tx_alive,         \* chunk_tx not dropped
    ll_pc,            \* position of llm_task
    call_result,      \* call_llm_for_streaming's return value
    task_result,      \* llm_task's return value
    gen_pc,           \* position of client.chat_completions_streaming
    streaming_result, \* its return value
    sse_rx,           \* sse channel: events sent and not yet received
    sse_open,         \* some sender of the sse channel is alive
    ps_pc,            \* position of process_task (process_sse_events)
    full_text,
    buffer,
    timer_started,
    interval,         \* the spawned interval task
    flush_rx,         \* flush channel: pending signals
    sent,             \* history: chunks accepted by the chunk channel
    nflush,           \* history: flush signals taken by process_sse_events
    nticks,           \* history: ticks the interval has fired
    ev_at_abort,      \* history: Len(events) when abort_signal was set, else -1
    saved,            \* history: how llm_task's save_to_file ended, else "none"
    file0,            \* history: the file when the request arrived
    now,              \* timed specification: the time, in ms
    nextTick,         \* timed specification: when the interval ticks next
    deltas,           \* history: the deltas the generator has sent
    sent_at,          \* history: the time of each chunk of `sent`
    schedule,         \* timed specification: the events the driver will send
    arrived,          \* timed specification: how many of them it has sent
    files,            \* store specification: data/<session_id>.json, per session id
    files0,           \* history: `files` when the server started
    turns,            \* store specification: the turns in flight, by turn number
    persisted,        \* history: the messages of each session's last complete record
    op,               \* function specification: the function called last
    arg,              \* function specification: its argument
    res,              \* function specification: what it returned
    issued            \* function specification: the UUIDs generated so far

chatVars == <<file, history, abort_signal, events, em_pc, rx_alive, ll_pc,
              call_result, task_result, ev_at_abort, saved>>
genVars == <<gen_pc, streaming_result, deltas>>
sseVars == <<sse_rx, sse_open, ps_pc, full_text, buffer, timer_started, interval,
             flush_rx, chunk_rx, tx_alive, sent, nflush, nticks, sent_at>>
timeVars == <<now, nextTick, schedule, arrived, file0>>
storeVars == <<files, files0, turns, persisted>>
apiVars == <<op, arg, res, issued>>
otherVars == <<storeVars, apiVars>>
streamVars == <<chatVars, genVars, sseVars, timeVars>>
vars == <<chatVars, genVars, sseVars, timeVars, otherVars>>

NoResult == [kind |-> "none", text |-> <<>>]
Ok(t) == [kind |-> "ok", text |-> t]
Err(e) == [kind |-> "err", text |-> e]

\* The session ids of the store specification and the turns it runs.
Sids == {"s1", "s2"}
TurnIds == 1..MaxTurns

\* The message a turn posts and the reply it gets: k copies of one character.
UserMsgOf(k) == [i \in 1..k |-> "q"]
ReplyOf(k) == [i \in 1..k |-> "r"]

\* A record persisted before the server started.
PriorFile(s) == Stored(add_message(new(s, 0), "assistant", <<"p">>, 0))

\* The messages of a file's record; none when it is absent or unparseable.
MessagesOf(f) == IF f.kind = "json" THEN f.value.messages ELSE <<>>

IdleTurn == [pc |-> "idle", sid |-> "s1", history |-> new("s1", 0),
             updated |-> new("s1", 0), saved |-> "none"]

\* The store specification is not running: it has no file and no turn.
StoreIdle ==
    /\ files = <<>>
    /\ files0 = <<>>
    /\ turns = <<>>
    /\ persisted = <<>>

\* No function of the function specification has been called.
ApiIdle ==
    /\ op = "none"
    /\ arg = 0
    /\ res = 0
    /\ issued = {}

InitCommon ==
    /\ history = new(Sid, 0)
    /\ abort_signal = FALSE
    /\ events = <<>>
    /\ chunk_rx = <<>>
    /\ rx_alive = TRUE
    /\ tx_alive = TRUE
    /\ call_result = NoResult
    /\ task_result = NoResult
    /\ gen_pc = "idle"
    /\ streaming_result = NoResult
    /\ sse_rx = <<>>
    /\ deltas = <<>>
    /\ sse_open = TRUE
    /\ full_text = <<>>
    /\ buffer = <<>>
    /\ timer_started = FALSE
    /\ interval = "none"
    /\ flush_rx = 0
    /\ sent = <<>>
    /\ sent_at = <<>>
    /\ nflush = 0
    /\ nticks = 0
    /\ ev_at_abort = -1
    /\ saved = "none"
    /\ now = 0
    /\ nextTick = 0
    /\ arrived = 0

\* The server is up, no request has arrived.
Init ==
    /\ InitCommon
    /\ StoreIdle
    /\ ApiIdle
    /\ file \in InitFiles
    /\ file0 = file
    /\ em_pc = "idle"
    /\ ll_pc = "idle"
    /\ ps_pc = "idle"
    /\ schedule = <<>>

\* ------------------------------------------------------- the chat handler
\* chat, before the stream: resolve the session, load the history, add the
\* user message to the in-memory copy (no save_to_file follows it).
ChatBegin ==
    /\ em_pc = "idle"
    /\ history' = add_message(load_or_new(file, Sid, now), "user", UserMsg, now)
    /\ em_pc' = "start"
    /\ UNCHANGED <<file, abort_signal, events, rx_alive, ll_pc, call_result,
                   task_result, ev_at_abort, saved>>
    /\ UNCHANGED <<genVars, sseVars, timeVars>>
    /\ UNCHANGED otherVars

\* yield Event::data("sse-start").event("trigger")
EmitStart ==
    /\ em_pc = "start"
    /\ events' = Append(events, StartEvent)
    /\ em_pc' = "spawn"
    /\ UNCHANGED <<file, history, abort_signal, rx_alive, ll_pc, call_result,
                   task_result, ev_at_abort, saved>>
    /\ UNCHANGED <<genVars, sseVars, timeVars>>
    /\ UNCHANGED otherVars

\* create_abort_signal, mpsc::channel(32), tokio::spawn(llm_task)
SpawnLlmTask ==
    /\ em_pc = "spawn"
    /\ em_pc' = "recv"
    /\ ll_pc' = "setup"
    /\ UNCHANGED <<file, history, abort_signal, events, rx_alive, call_result,
                   task_result, ev_at_abort, saved>>
    /\ UNCHANGED <<genVars, sseVars, timeVars>>
    /\ UNCHANGED otherVars

\* while let Some(chunk) = chunk_rx.recv().await: a chunk arrives; a non-empty
\* one is yielded as a message event.
RecvChunk ==
    /\ em_pc = "recv"
    /\ chunk_rx # <<>>
    /\ chunk_rx' = Tail(chunk_rx)
    /\ IF Head(chunk_rx) # <<>>
       THEN /\ events' = Append(events, MessageEvent(Head(chunk_rx)))
            /\ em_pc' = "check"
       ELSE UNCHANGED <<events, em_pc>>
    /\ UNCHANGED <<file, history, abort_signal, rx_alive, ll_pc, call_result,
                   task_result, ev_at_abort, saved>>
    /\ UNCHANGED <<sse_rx, sse_open, ps_pc, full_text, buffer, timer_started,
                   interval, flush_rx, tx_alive, sent, nflush, nticks, sent_at>>
    /\ UNCHANGED <<genVars, timeVars>>
    /\ UNCHANGED otherVars

\* chunk_rx.recv() returns None: the channel is empty and every sender dropped.
RecvClosed ==
    /\ em_pc = "recv"
    /\ chunk_rx = <<>>
    /\ ~tx_alive
    /\ em_pc' = "join"
    /\ UNCHANGED <<file, history, abort_signal, events, rx_alive, ll_pc,
                   call_result, task_result, ev_at_abort, saved>>
    /\ UNCHANGED <<genVars, sseVars, timeVars>>
    /\ UNCHANGED otherVars

\* if abort_signal_for_stream.aborted() { break; }, after the yield resumed
CheckAbortAfterYield ==
    /\ em_pc = "check"
    /\ em_pc' = IF abort_signal THEN "join" ELSE "recv"
    /\ UNCHANGED <<file, history, abort_signal, events, rx_alive, ll_pc,
                   call_result, task_result, ev_at_abort, saved>>
    /\ UNCHANGED <<genVars, sseVars, timeVars>>
    /\ UNCHANGED otherVars

\* JoinLlmTask with the end marker of a successful task forgotten.
JoinLlmTask_NoEnd ==
    /\ em_pc = "join"
    /\ ll_pc = "done"
    /\ IF abort_signal \/ task_result.kind = "ok"
       THEN /\ em_pc' = "done"
            /\ UNCHANGED events
       ELSE /\ events' = Append(events, ErrorEvent(task_result.text))
            /\ em_pc' = "end_after_error"
    /\ UNCHANGED <<file, history, abort_signal, rx_alive, ll_pc, call_result,
                   task_result, ev_at_abort, saved>>
    /\ UNCHANGED <<genVars, sseVars, timeVars>>
    /\ UNCHANGED otherVars

\* JoinLlmTask with the error reported whether or not the stream was aborted.
JoinLlmTask_ErrorIgnoresAbort ==
    /\ em_pc = "join"
    /\ ll_pc = "done"
    /\ IF task_result.kind = "ok"
       THEN /\ events' = IF abort_signal THEN events ELSE Append(events, EndEvent)
            /\ em_pc' = "done"
       ELSE /\ events' = Append(events, ErrorEvent(task_result.text))
            /\ em_pc' = "end_after_error"
    /\ UNCHANGED <<file, history, abort_signal, rx_alive, ll_pc, call_result,
                   task_result, ev_at_abort, saved>>
    /\ UNCHANGED <<genVars, sseVars, timeVars>>
    /\ UNCHANGED otherVars

\* match llm_task.await: the end marker, or the error event, unless aborted.
JoinLlmTask ==
    /\ em_pc = "join"
    /\ ll_pc = "done"
    /\ IF abort_signal
       THEN /\ em_pc' = "done"
            /\ UNCHANGED events
       ELSE IF task_result.kind = "ok"
       THEN /\ events' = Append(events, EndEvent)
            /\ em_pc' = "done"
       ELSE /\ events' = Append(events, ErrorEvent(task_result.text))
            /\ em_pc' = "end_after_error"
    /\ UNCHANGED <<file, history, abort_signal, rx_alive, ll_pc, call_result,
                   task_result, ev_at_abort, saved>>
    /\ UNCHANGED <<genVars, sseVars, timeVars>>
    /\ UNCHANGED otherVars

\* yield Event::data("sse-end") right after the error event, with no new check.
EmitEndAfterError ==
    /\ em_pc = "end_after_error"
    /\ events' = Append(events, EndEvent)
    /\ em_pc' = "done"
    /\ UNCHANGED <<file, history, abort_signal, rx_alive, ll_pc, call_result,
                   task_result, ev_at_abort, saved>>
    /\ UNCHANGED <<genVars, sseVars, timeVars>>
    /\ UNCHANGED otherVars

\* The client goes away: the write of a yielded event fails or the connection
\* closes, and the server drops the suspended EventStream generator with its
\* locals (chunk_rx, the JoinHandle of llm_task). Nothing in chat sets the
\* abort signal here; llm_task runs on, detached.
ClientDisconnect ==
    /\ em_pc \in {"spawn", "recv", "check", "join", "end_after_error"}
    /\ em_pc' = "dropped"
    /\ rx_alive' = FALSE
    /\ chunk_rx' = <<>>
    /\ UNCHANGED <<file, history, abort_signal, events, ll_pc, call_result,
                   task_result, ev_at_abort, saved>>
    /\ UNCHANGED <<sse_rx, sse_open, ps_pc, full_text, buffer, timer_started,
                   interval, flush_rx, tx_alive, sent, nflush, nticks, sent_at>>
    /\ UNCHANGED <<genVars, timeVars>>
    /\ UNCHANGED otherVars

\* The turn has resolved: the stream ended or was dropped, llm_task returned.
Resolved ==
    /\ em_pc \in {"done", "dropped"}
    /\ ll_pc \in {"idle", "done"}

\* SetAbort with the signal flipped by each set instead of stored as true.
SetAbort_Toggles ==
    /\ em_pc \notin {"idle", "start", "spawn", "sync_done"}
    /\ ~Resolved
    /\ abort_signal' = ~abort_signal
    /\ ev_at_abort' = IF abort_signal THEN ev_at_abort ELSE Len(events)
    /\ UNCHANGED <<file, history, events, em_pc, rx_alive, ll_pc, call_result,
                   task_result, saved>>
    /\ UNCHANGED <<genVars, sseVars, timeVars>>
    /\ UNCHANGED otherVars

\* A holder of the stream's AbortSignal sets it (set_ctrlc), at any moment
\* between its creation and the end of the turn.
SetAbort ==
    /\ em_pc \notin {"idle", "start", "spawn", "sync_done"}
    /\ ~Resolved
    /\ abort_signal' = TRUE
    /\ ev_at_abort' = IF abort_signal THEN ev_at_abort ELSE Len(events)
    /\ UNCHANGED <<file, history, events, em_pc, rx_alive, ll_pc, call_result,
                   task_result, saved>>
    /\ UNCHANGED <<genVars, sseVars, timeVars>>
    /\ UNCHANGED otherVars

\* ------------------------------------- llm_task, call_llm_for_streaming
\* input.create_client()? and before_chat_completion(input)?: either fails
\* and the call returns Err, dropping chunk_sender; otherwise the sse channel
\* and process_task are set up and the streaming call starts.
LlmSetup ==
    /\ ll_pc = "setup"
    /\ \/ /\ call_result' = Err(<<"S">>)
          /\ tx_alive' = FALSE
          /\ ll_pc' = "result"
          /\ UNCHANGED <<gen_pc, ps_pc>>
       \/ /\ ps_pc' = "select"
          /\ gen_pc' = "run"
          /\ ll_pc' = "streaming"
          /\ UNCHANGED <<call_result, tx_alive>>
    /\ UNCHANGED <<file, history, abort_signal, events, em_pc, rx_alive,
                   task_result, ev_at_abort, saved>>
    /\ UNCHANGED <<sse_rx, sse_open, full_text, buffer, timer_started, interval,
                   flush_rx, chunk_rx, sent, nflush, nticks, sent_at>>
    /\ UNCHANGED <<streaming_result, deltas, timeVars>>
    /\ UNCHANGED otherVars

\* LlmAbortCheck with the placeholder also sent down the chunk channel.
LlmAbortCheck_SendsPlaceholder ==
    /\ ll_pc = "streaming"
    /\ gen_pc = "done"
    /\ IF abort_signal
       THEN /\ call_result' = Ok(Placeholder)
            /\ ll_pc' = "result"
            /\ sse_open' = FALSE
            /\ chunk_rx' = IF rx_alive THEN Append(chunk_rx, Placeholder) ELSE chunk_rx
            /\ IF ps_pc = "select"
               THEN /\ ps_pc' = "aborted"
                    /\ tx_alive' = FALSE
               ELSE UNCHANGED <<ps_pc, tx_alive>>
       ELSE /\ ll_pc' = "await_process"
            /\ UNCHANGED <<call_result, sse_open, ps_pc, tx_alive, chunk_rx>>
    /\ UNCHANGED <<file, history, abort_signal, events, em_pc, rx_alive,
                   task_result, ev_at_abort, saved>>
    /\ UNCHANGED <<sse_rx, full_text, buffer, timer_started, interval, flush_rx,
                   sent, nflush, nticks, sent_at>>
    /\ UNCHANGED <<genVars, timeVars>>
    /\ UNCHANGED otherVars

\* After the streaming call returned: if abort_signal.aborted(), abort
\* process_task and return Ok("[Aborted by client]"). The aborted task drops
\* its locals (sender, flush_rx); the interval task is detached, not aborted.
LlmAbortCheck ==
    /\ ll_pc = "streaming"
    /\ gen_pc = "done"
    /\ IF abort_signal
       THEN /\ call_result' = Ok(Placeholder)
            /\ ll_pc' = "result"
            /\ sse_open' = FALSE
            /\ IF ps_pc = "select"
               THEN /\ ps_pc' = "aborted"
                    /\ tx_alive' = FALSE
               ELSE UNCHANGED <<ps_pc, tx_alive>>
       ELSE /\ ll_pc' = "await_process"
            /\ UNCHANGED <<call_result, sse_open, ps_pc, tx_alive>>
    /\ UNCHANGED <<file, history, abort_signal, events, em_pc, rx_alive,
                   task_result, ev_at_abort, saved>>
    /\ UNCHANGED <<sse_rx, full_text, buffer, timer_started, interval, flush_rx,
                   chunk_rx, sent, nflush, nticks, sent_at>>
    /\ UNCHANGED <<genVars, timeVars>>
    /\ UNCHANGED otherVars

\* process_task.await gave full_text; then the streaming call's error, the
\* last abort check and after_chat_completion(..)? decide the return value.
LlmResolve ==
    /\ ll_pc = "await_process"
    /\ ps_pc = "done"
    /\ \E hook_ok \in BOOLEAN :
         call_result' =
            IF streaming_result.kind = "err"
            THEN (IF abort_signal THEN Ok(Placeholder) ELSE Err(streaming_result.text))
            ELSE IF abort_signal THEN Ok(Placeholder)
            ELSE IF hook_ok THEN Ok(full_text)
            ELSE Err(<<"H">>)
    /\ ll_pc' = "result"
    /\ sse_open' = FALSE
    /\ UNCHANGED <<file, history, abort_signal, events, em_pc, rx_alive,
                   task_result, ev_at_abort, saved>>
    /\ UNCHANGED <<sse_rx, ps_pc, full_text, buffer, timer_started, interval,
                   flush_rx, chunk_rx, tx_alive, sent, nflush, nticks, sent_at>>
    /\ UNCHANGED <<genVars, timeVars>>
    /\ UNCHANGED otherVars

\* LlmResult with the history update not guarded by the abort check.
LlmResult_NoAbortCheck ==
    /\ ll_pc = "result"
    /\ IF call_result.kind = "ok"
       THEN /\ ll_pc' = "persist"
            /\ UNCHANGED task_result
       ELSE /\ ll_pc' = "done"
            /\ task_result' = IF abort_signal THEN Ok(<<>>) ELSE call_result
    /\ UNCHANGED <<file, history, abort_signal, events, em_pc, rx_alive,
                   call_result, ev_at_abort, saved>>
    /\ UNCHANGED <<genVars, sseVars, timeVars>>
    /\ UNCHANGED otherVars

\* LlmResult with the error of a turn that was not aborted recorded as the
\* assistant's message, as the synchronous handler does.
LlmResult_PersistsError ==
    /\ ll_pc = "result"
    /\ IF call_result.kind = "ok"
       THEN IF ~abort_signal
            THEN /\ ll_pc' = "persist"
                 /\ UNCHANGED task_result
            ELSE /\ ll_pc' = "done"
                 /\ task_result' = Ok(<<>>)
       ELSE IF ~abort_signal
            THEN /\ ll_pc' = "persist"
                 /\ UNCHANGED task_result
            ELSE /\ ll_pc' = "done"
                 /\ task_result' = Ok(<<>>)
    /\ UNCHANGED <<file, history, abort_signal, events, em_pc, rx_alive,
                   call_result, ev_at_abort, saved>>
    /\ UNCHANGED <<genVars, sseVars, timeVars>>
    /\ UNCHANGED otherVars

\* llm_task, match result: Ok goes on to the history update only if not
\* aborted; Err is swallowed if aborted and returned otherwise.
LlmResult ==
    /\ ll_pc = "result"
    /\ IF call_result.kind = "ok"
       THEN IF ~abort_signal
            THEN /\ ll_pc' = "persist"
                 /\ UNCHANGED task_result
            ELSE /\ ll_pc' = "done"
                 /\ task_result' = Ok(<<>>)
       ELSE /\ ll_pc' = "done"
            /\ task_result' = IF abort_signal THEN Ok(<<>>) ELSE call_result
    /\ UNCHANGED <<file, history, abort_signal, events, em_pc, rx_alive,
                   call_result, ev_at_abort, saved>>
    /\ UNCHANGED <<genVars, sseVars, timeVars>>
    /\ UNCHANGED otherVars

\* LlmPersist with the history not loaded again: a fresh one is saved.
LlmPersist_NoLoad ==
    /\ ll_pc = "persist"
    /\ \E outcome \in SaveOutcomes :
         /\ file' = save_to_file(file,
                        add_message(new(Sid, now), "assistant", call_result.text, now),
                        outcome)
         /\ saved' = outcome
    /\ task_result' = Ok(<<>>)
    /\ ll_pc' = "done"
    /\ UNCHANGED <<history, abort_signal, events, em_pc, rx_alive, call_result,
                   ev_at_abort>>
    /\ UNCHANGED <<genVars, sseVars, timeVars>>
    /\ UNCHANGED otherVars

\* LlmPersist with a failed save returned as the task's error.
LlmPersist_FailsTask ==
    /\ ll_pc = "persist"
    /\ \E outcome \in SaveOutcomes :
         /\ file' = save_to_file(file,
                        add_message(load_or_new(file, Sid, now), "assistant",
                                    call_result.text, now),
                        outcome)
         /\ saved' = outcome
         /\ task_result' = IF outcome = "ok" THEN Ok(<<>>) ELSE Err(<<"io">>)
    /\ ll_pc' = "done"
    /\ UNCHANGED <<history, abort_signal, events, em_pc, rx_alive, call_result,
                   ev_at_abort>>
    /\ UNCHANGED <<genVars, sseVars, timeVars>>
    /\ UNCHANGED otherVars

\* load_from_file (a fresh history on error), add_message("assistant",
\* response_text), save_to_file; a failed save is only logged.
LlmPersist ==
    /\ ll_pc = "persist"
    /\ \E outcome \in SaveOutcomes :
         /\ file' = save_to_file(file,
                        add_message(load_or_new(file, Sid, now), "assistant",
                                    call_result.text, now),
                        outcome)
         /\ saved' = outcome
    /\ task_result' = Ok(<<>>)
    /\ ll_pc' = "done"
    /\ UNCHANGED <<history, abort_signal, events, em_pc, rx_alive, call_result,
                   ev_at_abort>>
    /\ UNCHANGED <<genVars, sseVars, timeVars>>
    /\ UNCHANGED otherVars

\* ------------------------------------------------------------ the generator
\* client.chat_completions_streaming(input, &mut handler): an ordered sequence
\* of text deltas, ended by completion or by an error; the handler sends Done
\* in both cases. Once it observes the abort signal it stops and returns Ok.
GenText ==
    /\ gen_pc = "run"
    /\ Len(deltas) < MaxDeltas
    /\ \E d \in DeltaSet(Len(deltas) + 1) :
         /\ sse_rx' = Append(sse_rx, Text(d))
         /\ deltas' = Append(deltas, d)
    /\ UNCHANGED <<sse_open, ps_pc, full_text, buffer, timer_started, interval,
                   flush_rx, chunk_rx, tx_alive, sent, nflush, nticks, sent_at>>
    /\ UNCHANGED <<gen_pc, streaming_result>>
    /\ UNCHANGED <<chatVars, timeVars>>
    /\ UNCHANGED otherVars

\* The call ends: handler.done() sends Done, and the call returns Ok or Err.
GenEnd(result) ==
    /\ gen_pc = "run"
    /\ sse_rx' = Append(sse_rx, Done)
    /\ streaming_result' = result
    /\ gen_pc' = "done"
    /\ UNCHANGED <<sse_open, ps_pc, full_text, buffer, timer_started, interval,
                   flush_rx, chunk_rx, tx_alive, sent, nflush, nticks, sent_at>>
    /\ UNCHANGED <<deltas, chatVars, timeVars>>
    /\ UNCHANGED otherVars

GenDone == GenEnd(Ok(<<>>))

GenError == GenEnd(Err(GenErrorText))

\* ------------------------------------------------------ process_sse_events
\* handle.abort() on interval_handle, when it is Some.
AbortInterval(iv) == IF iv = "none" THEN "none" ELSE "stopped"

\* sender.send(buffer.clone()).await can complete: with Err when the receiver
\* is gone, with Ok when the channel has room.
CanSend == ~rx_alive \/ Len(chunk_rx) < ChunkCap

\* RecvText with the interval's immediate first tick not skipped.
RecvText_FirstTickKept ==
    /\ ps_pc = "select"
    /\ sse_rx # <<>>
    /\ Head(sse_rx).type = "Text"
    /\ sse_rx' = Tail(sse_rx)
    /\ full_text' = full_text \o Head(sse_rx).text
    /\ buffer' = buffer \o Head(sse_rx).text
    /\ IF ~timer_started /\ buffer' # <<>>
       THEN /\ timer_started' = TRUE
            /\ interval' = "wait"
            /\ nextTick' = now
       ELSE UNCHANGED <<timer_started, interval, nextTick>>
    /\ UNCHANGED <<sse_open, ps_pc, flush_rx, chunk_rx, tx_alive, sent, nflush,
                   nticks, sent_at>>
    /\ UNCHANGED <<chatVars, genVars, now, schedule, arrived, file0>>
    /\ UNCHANGED otherVars

\* RecvText with no interval task spawned.
RecvText_NoInterval ==
    /\ ps_pc = "select"
    /\ sse_rx # <<>>
    /\ Head(sse_rx).type = "Text"
    /\ sse_rx' = Tail(sse_rx)
    /\ full_text' = full_text \o Head(sse_rx).text
    /\ buffer' = buffer \o Head(sse_rx).text
    /\ timer_started' = (timer_started \/ buffer' # <<>>)
    /\ UNCHANGED <<interval, nextTick>>
    /\ UNCHANGED <<sse_open, ps_pc, flush_rx, chunk_rx, tx_alive, sent, nflush,
                   nticks, sent_at>>
    /\ UNCHANGED <<chatVars, genVars, now, schedule, arrived, file0>>
    /\ UNCHANGED otherVars

\* RecvText with the interval started anew by every delta.
RecvText_RestartsTimer ==
    /\ ps_pc = "select"
    /\ sse_rx # <<>>
    /\ Head(sse_rx).type = "Text"
    /\ sse_rx' = Tail(sse_rx)
    /\ full_text' = full_text \o Head(sse_rx).text
    /\ buffer' = buffer \o Head(sse_rx).text
    /\ IF buffer' # <<>>
       THEN /\ timer_started' = TRUE
            /\ interval' = "wait"
            /\ nextTick' = now + DelayMs
       ELSE UNCHANGED <<timer_started, interval, nextTick>>
    /\ UNCHANGED <<sse_open, ps_pc, flush_rx, chunk_rx, tx_alive, sent, nflush,
                   nticks, sent_at>>
    /\ UNCHANGED <<chatVars, genVars, now, schedule, arrived, file0>>
    /\ UNCHANGED otherVars

\* select!, sse_rx.recv() => Some(SseEvent::Text(text)): accumulate, and start
\* the interval task on the first non-empty buffer.
RecvText ==
    /\ ps_pc = "select"
    /\ sse_rx # <<>>
    /\ Head(sse_rx).type = "Text"
    /\ sse_rx' = Tail(sse_rx)
    /\ full_text' = full_text \o Head(sse_rx).text
    /\ buffer' = buffer \o Head(sse_rx).text
    /\ IF ~timer_started /\ buffer' # <<>>
       THEN /\ timer_started' = TRUE
            /\ interval' = "wait"
            /\ nextTick' = now + DelayMs
       ELSE UNCHANGED <<timer_started, interval, nextTick>>
    /\ UNCHANGED <<sse_open, ps_pc, flush_rx, chunk_rx, tx_alive, sent, nflush,
                   nticks, sent_at>>
    /\ UNCHANGED <<chatVars, genVars, now, schedule, arrived, file0>>
    /\ UNCHANGED otherVars

\* RecvDone without the final flush of the buffer.
RecvDone_NoFinalFlush ==
    /\ ps_pc = "select"
    /\ sse_rx # <<>>
    /\ Head(sse_rx).type = "Done"
    /\ sse_rx' = Tail(sse_rx)
    /\ interval' = AbortInterval(interval)
    /\ ps_pc' = "done"
    /\ tx_alive' = FALSE
    /\ UNCHANGED <<chunk_rx, sent, sent_at, buffer>>
    /\ UNCHANGED <<sse_open, full_text, timer_started, flush_rx, nflush, nticks>>
    /\ UNCHANGED <<chatVars, genVars, timeVars>>
    /\ UNCHANGED otherVars

\* RecvDone with the interval task left running.
RecvDone_KeepsInterval ==
    /\ ps_pc = "select"
    /\ sse_rx # <<>>
    /\ Head(sse_rx).type = "Done"
    /\ sse_rx' = Tail(sse_rx)
    /\ IF buffer # <<>>
       THEN /\ CanSend
            /\ IF rx_alive
               THEN /\ chunk_rx' = Append(chunk_rx, buffer)
                    /\ sent' = Append(sent, buffer)
                    /\ sent_at' = Append(sent_at, now)
                    /\ buffer' = <<>>
               ELSE UNCHANGED <<chunk_rx, sent, sent_at, buffer>>
       ELSE UNCHANGED <<chunk_rx, sent, sent_at, buffer>>
    /\ ps_pc' = "done"
    /\ tx_alive' = FALSE
    /\ UNCHANGED <<sse_open, full_text, timer_started, flush_rx, nflush, nticks,
                   interval>>
    /\ UNCHANGED <<chatVars, genVars, timeVars>>
    /\ UNCHANGED otherVars

\* select!, sse_rx.recv() => Some(SseEvent::Done): the final flush of a
\* non-empty buffer; a failed send breaks before the interval is aborted.
RecvDone ==
    /\ ps_pc = "select"
    /\ sse_rx # <<>>
    /\ Head(sse_rx).type = "Done"
    /\ sse_rx' = Tail(sse_rx)
    /\ IF buffer # <<>>
       THEN /\ CanSend
            /\ IF rx_alive
               THEN /\ chunk_rx' = Append(chunk_rx, buffer)
                    /\ sent' = Append(sent, buffer)
                    /\ sent_at' = Append(sent_at, now)
                    /\ buffer' = <<>>
                    /\ interval' = AbortInterval(interval)
               ELSE UNCHANGED <<chunk_rx, sent, sent_at, buffer, interval>>
       ELSE /\ interval' = AbortInterval(interval)
            /\ UNCHANGED <<chunk_rx, sent, sent_at, buffer>>
    /\ ps_pc' = "done"
    /\ tx_alive' = FALSE
    /\ UNCHANGED <<sse_open, full_text, timer_started, flush_rx, nflush, nticks>>
    /\ UNCHANGED <<chatVars, genVars, timeVars>>
    /\ UNCHANGED otherVars

\* select!, sse_rx.recv() => None: the sse channel is closed and drained.
RecvNone ==
    /\ ps_pc = "select"
    /\ sse_rx = <<>>
    /\ ~sse_open
    /\ ps_pc' = "done"
    /\ tx_alive' = FALSE
    /\ UNCHANGED <<sse_rx, sse_open, full_text, buffer, timer_started, interval,
                   flush_rx, chunk_rx, sent, nflush, nticks, sent_at>>
    /\ UNCHANGED <<chatVars, genVars, timeVars>>
    /\ UNCHANGED otherVars

\* RecvFlush with the buffer not cleared after a successful send.
RecvFlush_NoClear ==
    /\ ps_pc = "select"
    /\ flush_rx > 0
    /\ flush_rx' = flush_rx - 1
    /\ nflush' = nflush + 1
    /\ IF buffer # <<>>
       THEN /\ CanSend
            /\ IF rx_alive
               THEN /\ chunk_rx' = Append(chunk_rx, buffer)
                    /\ sent' = Append(sent, buffer)
                    /\ sent_at' = Append(sent_at, now)
                    /\ UNCHANGED <<buffer, interval, ps_pc, tx_alive>>
               ELSE /\ interval' = AbortInterval(interval)
                    /\ ps_pc' = "done"
                    /\ tx_alive' = FALSE
                    /\ UNCHANGED <<chunk_rx, sent, sent_at, buffer>>
       ELSE UNCHANGED <<chunk_rx, sent, sent_at, buffer, interval, ps_pc, tx_alive>>
    /\ UNCHANGED <<sse_rx, sse_open, full_text, timer_started, nticks>>
    /\ UNCHANGED <<chatVars, genVars, timeVars>>
    /\ UNCHANGED otherVars

\* RecvFlush with no test for an empty buffer.
RecvFlush_SendsEmpty ==
    /\ ps_pc = "select"
    /\ flush_rx > 0
    /\ flush_rx' = flush_rx - 1
    /\ nflush' = nflush + 1
    /\ CanSend
    /\ IF rx_alive
       THEN /\ chunk_rx' = Append(chunk_rx, buffer)
            /\ sent' = Append(sent, buffer)
            /\ sent_at' = Append(sent_at, now)
            /\ buffer' = <<>>
            /\ UNCHANGED <<interval, ps_pc, tx_alive>>
       ELSE /\ interval' = AbortInterval(interval)
            /\ ps_pc' = "done"
            /\ tx_alive' = FALSE
            /\ UNCHANGED <<chunk_rx, sent, sent_at, buffer>>
    /\ UNCHANGED <<sse_rx, sse_open, full_text, timer_started, nticks>>
    /\ UNCHANGED <<chatVars, genVars, timeVars>>
    /\ UNCHANGED otherVars

\* select!, flush_rx.recv(): send a non-empty buffer as one chunk and clear
\* it; a failed send aborts the interval and breaks.
RecvFlush ==
    /\ ps_pc = "select"
    /\ flush_rx > 0
    /\ flush_rx' = flush_rx - 1
    /\ nflush' = nflush + 1
    /\ IF buffer # <<>>
       THEN /\ CanSend
            /\ IF rx_alive
               THEN /\ chunk_rx' = Append(chunk_rx, buffer)
                    /\ sent' = Append(sent, buffer)
                    /\ sent_at' = Append(sent_at, now)
                    /\ buffer' = <<>>
                    /\ UNCHANGED <<interval, ps_pc, tx_alive>>
               ELSE /\ interval' = AbortInterval(interval)
                    /\ ps_pc' = "done"
                    /\ tx_alive' = FALSE
                    /\ UNCHANGED <<chunk_rx, sent, sent_at, buffer>>
       ELSE UNCHANGED <<chunk_rx, sent, sent_at, buffer, interval, ps_pc, tx_alive>>
    /\ UNCHANGED <<sse_rx, sse_open, full_text, timer_started, nticks>>
    /\ UNCHANGED <<chatVars, genVars, timeVars>>
    /\ UNCHANGED otherVars

\* ------------------------------------------------------- the interval task
\* interval.tick().await completes (the first, immediate tick was skipped
\* when the task started).
IntervalTick ==
    /\ interval = "wait"
    /\ nticks < MaxTicks
    /\ interval' = "send"
    /\ nticks' = nticks + 1
    /\ UNCHANGED <<sse_rx, sse_open, ps_pc, full_text, buffer, timer_started,
                   flush_rx, chunk_rx, tx_alive, sent, nflush, sent_at>>
    /\ UNCHANGED <<chatVars, genVars, timeVars>>
    /\ UNCHANGED otherVars

\* IntervalSend with a failed send not ending the loop: the task ticks on.
IntervalSend_IgnoresClosed ==
    /\ interval = "send"
    /\ IF ps_pc # "select"
       THEN /\ interval' = "wait"
            /\ UNCHANGED flush_rx
       ELSE /\ flush_rx < FlushCap
            /\ flush_rx' = flush_rx + 1
            /\ interval' = "wait"
    /\ UNCHANGED <<sse_rx, sse_open, ps_pc, full_text, buffer, timer_started,
                   chunk_rx, tx_alive, sent, nflush, nticks, sent_at>>
    /\ UNCHANGED <<chatVars, genVars, timeVars>>
    /\ UNCHANGED otherVars

\* flush_tx_clone.send(()).await: Err once flush_rx is dropped (the task
\* breaks), Ok when the channel has room.
IntervalSend ==
    /\ interval = "send"
    /\ IF ps_pc # "select"
       THEN /\ interval' = "stopped"
            /\ UNCHANGED flush_rx
       ELSE /\ flush_rx < FlushCap
            /\ flush_rx' = flush_rx + 1
            /\ interval' = "wait"
    /\ UNCHANGED <<sse_rx, sse_open, ps_pc, full_text, buffer, timer_started,
                   chunk_rx, tx_alive, sent, nflush, nticks, sent_at>>
    /\ UNCHANGED <<chatVars, genVars, timeVars>>
    /\ UNCHANGED otherVars

\* --------------------------------------------- the scheduler against time
\* process_sse_events driven as in the unit tests: a driver sends Text events
\* and then Done, or drops the sender, at given times; the receiver of the
\* chunk channel is held and not read. Time is in ms. Every task runs as soon
\* as it can: time passes only when nothing is ready.
Script == <<<<"H", "e">>, <<"l", "l", "o", " ">>, <<"W", "o", "r">>, <<"l", "d">>>>
ScriptAt(i) == Script[((i - 1) % Len(Script)) + 1]
\* The time between two events of the driver.
GapSet == {0, 10, 140}

RECURSIVE SumTo(_, _)
SumTo(gaps, i) == IF i = 0 THEN 0 ELSE gaps[i] + SumTo(gaps, i - 1)

\* n deltas, the first at time 0, then the end of the stream.
ScheduleOf(n, gaps, end) ==
    [i \in 1..(n + 1) |->
        [at |-> SumTo(gaps, i - 1),
         ev |-> IF i <= n THEN Text(ScriptAt(i)) ELSE end]]

Close == [type |-> "Close", text |-> <<>>]

Schedules ==
    UNION {{ScheduleOf(n, gaps, end) : gaps \in [1..n -> GapSet], end \in {Done, Close}}
           : n \in 1..MaxSched}

InitTimed ==
    /\ InitCommon
    /\ StoreIdle
    /\ ApiIdle
    /\ file = Missing
    /\ file0 = file
    /\ em_pc = "driver"
    /\ ll_pc = "driver"
    /\ ps_pc = "select"
    /\ schedule \in Schedules

\* sse_tx.send(event), or drop(sse_tx), when its time has come.
Arrive ==
    /\ arrived < Len(schedule)
    /\ schedule[arrived + 1].at <= now
    /\ arrived' = arrived + 1
    /\ LET ev == schedule[arrived + 1].ev
       IN  IF ev.type = "Close"
           THEN /\ sse_open' = FALSE
                /\ UNCHANGED <<sse_rx, deltas>>
           ELSE /\ sse_rx' = Append(sse_rx, ev)
                /\ deltas' = IF ev.type = "Text" THEN Append(deltas, ev.text) ELSE deltas
                /\ UNCHANGED sse_open
    /\ UNCHANGED <<ps_pc, full_text, buffer, timer_started, interval, flush_rx,
                   chunk_rx, tx_alive, sent, nflush, nticks, sent_at>>
    /\ UNCHANGED <<chatVars, gen_pc, streaming_result, now, nextTick, schedule, file0>>
    /\ UNCHANGED otherVars

\* interval.tick().await completes: one period after the previous tick.
TimedTick ==
    /\ interval = "wait"
    /\ nextTick <= now
    /\ interval' = "send"
    /\ nextTick' = nextTick + DelayMs
    /\ nticks' = nticks + 1
    /\ UNCHANGED <<sse_rx, sse_open, ps_pc, full_text, buffer, timer_started,
                   flush_rx, chunk_rx, tx_alive, sent, nflush, sent_at>>
    /\ UNCHANGED <<chatVars, genVars, now, schedule, arrived, file0>>
    /\ UNCHANGED otherVars

\* Some task can run at the present time.
Ready ==
    \/ ps_pc = "select" /\ (sse_rx # <<>> \/ flush_rx > 0 \/ ~sse_open)
    \/ interval = "send"
    \/ interval = "wait" /\ nextTick <= now
    \/ arrived < Len(schedule) /\ schedule[arrived + 1].at <= now

\* The times at which something will become ready.
Wakeups ==
    (IF arrived < Len(schedule) THEN {schedule[arrived + 1].at} ELSE {})
    \cup (IF interval = "wait" THEN {nextTick} ELSE {})

\* Time passes, to the next moment at which a task can run.
Advance ==
    /\ ~Ready
    /\ Wakeups # {}
    /\ now' = CHOOSE t \in Wakeups : \A u \in Wakeups : t <= u
    /\ UNCHANGED <<chatVars, genVars, sseVars, nextTick, schedule, arrived, file0>>
    /\ UNCHANGED otherVars

NextTimed ==
    \/ Arrive
    \/ Advance
    \/ TimedTick
    \/ IntervalSend
    \/ RecvText
    \/ RecvDone
    \/ RecvNone
    \/ RecvFlush

SpecTimed == InitTimed /\ [][NextTimed]_vars

\* drop(chunk_rx): the holder of the chunk receiver lets it go, at any moment.
DropReceiver ==
    /\ em_pc = "driver"
    /\ rx_alive
    /\ rx_alive' = FALSE
    /\ chunk_rx' = <<>>
    /\ UNCHANGED <<file, history, abort_signal, events, em_pc, ll_pc, call_result,
                   task_result, ev_at_abort, saved>>
    /\ UNCHANGED <<sse_rx, sse_open, ps_pc, full_text, buffer, timer_started,
                   interval, flush_rx, tx_alive, sent, nflush, nticks, sent_at>>
    /\ UNCHANGED <<genVars, timeVars>>
    /\ UNCHANGED otherVars

\* The scheduler against time with a receiver that may be dropped.
NextTimedDrop ==
    \/ NextTimed
    \/ DropReceiver

SpecTimedDrop == InitTimed /\ [][NextTimedDrop]_vars

\* ---------------------------------------------- the synchronous handler
\* What call_llm may return to the synchronous handler.
CallLlmResults == {Ok(<<>>), Ok(<<"a", "<">>), Err(GenErrorText)}
SorryPrefix == <<"Sorry, I encountered an error: ">>
\* match call_llm(..).await { Ok(text) => text, Err(e) => format!(..) }
response_text(r) == IF r.kind = "ok" THEN r.text ELSE SorryPrefix \o r.text
ChatResponse(response, status) == [response |-> response, status |-> status]

\* SyncChat with no assistant message added when call_llm failed.
SyncChat_ErrorNotRecorded ==
    /\ em_pc = "idle"
    /\ \E r \in CallLlmResults, outcome \in SaveOutcomes :
         LET loaded == load_or_new(file, Sid, now)
             asked == add_message(loaded, "user", UserMsg, now)
             answered == IF r.kind = "ok"
                         THEN add_message(asked, "assistant", response_text(r), now)
                         ELSE asked
         IN  /\ history' = answered
             /\ file' = save_to_file(file, answered, outcome)
             /\ saved' = outcome
             /\ arg' = r
             /\ res' = ChatResponse(response_text(r), "success")
    /\ em_pc' = "sync_done"
    /\ UNCHANGED <<abort_signal, events, rx_alive, ll_pc, call_result,
                   task_result, ev_at_abort>>
    /\ UNCHANGED <<genVars, sseVars, timeVars>>
    /\ UNCHANGED <<storeVars, op, issued>>

\* main.rs chat: load (a fresh history on error), add the user message, call
\* the LLM, add the assistant message, save (a failure is only printed),
\* answer with the response text.
SyncChat ==
    /\ em_pc = "idle"
    /\ \E r \in CallLlmResults, outcome \in SaveOutcomes :
         LET loaded == load_or_new(file, Sid, now)
             asked == add_message(loaded, "user", UserMsg, now)
             answered == add_message(asked, "assistant", response_text(r), now)
         IN  /\ history' = answered
             /\ file' = save_to_file(file, answered, outcome)
             /\ saved' = outcome
             /\ arg' = r
             /\ res' = ChatResponse(response_text(r), "success")
    /\ em_pc' = "sync_done"
    /\ UNCHANGED <<abort_signal, events, rx_alive, ll_pc, call_result,
                   task_result, ev_at_abort>>
    /\ UNCHANGED <<genVars, sseVars, timeVars>>
    /\ UNCHANGED <<storeVars, op, issued>>

\* ------------------------------------------------------- the specification
Next ==
    \/ SyncChat
    \/ ChatBegin
    \/ EmitStart
    \/ SpawnLlmTask
    \/ RecvChunk
    \/ RecvClosed
    \/ CheckAbortAfterYield
    \/ JoinLlmTask
    \/ EmitEndAfterError
    \/ ClientDisconnect
    \/ SetAbort
    \/ LlmSetup
    \/ LlmAbortCheck
    \/ LlmResolve
    \/ LlmResult
    \/ LlmPersist
    \/ GenText
    \/ GenDone
    \/ GenError
    \/ RecvText
    \/ RecvDone
    \/ RecvFlush
    \/ IntervalTick
    \/ IntervalSend

Spec == Init /\ [][Next]_vars

\* No request of the single-stream specification has arrived.
ChatIdle ==
    /\ InitCommon
    /\ file = Missing
    /\ file0 = file
    /\ em_pc = "idle"
    /\ ll_pc = "idle"
    /\ ps_pc = "idle"
    /\ schedule = <<>>

\* ------------------------------------------------- turns sharing the store
\* Several turns, on the same or on distinct session ids, run their store
\* steps concurrently (llm_task runs on the runtime's worker threads): chat
\* loads the history and adds the user message in memory; llm_task, once the
\* response is complete and not aborted, loads the file again, adds the
\* assistant message and saves. fs::write truncates the file and then writes
\* the content.
InitStore ==
    /\ ChatIdle
    /\ ApiIdle
    /\ files \in [Sids -> {Missing, Corrupt}]
                 \cup {[s \in Sids |-> PriorFile(s)]}
                 \cup {[s \in Sids |-> IF s = "s1" THEN PriorFile(s) ELSE Missing]}
    /\ files0 = files
    /\ turns = [k \in TurnIds |-> IdleTurn]
    /\ persisted = [s \in Sids |-> MessagesOf(files[s])]

\* chat: session id, load_from_file (a fresh history on error), add_message
\* ("user", ..). Nothing is saved here.
TurnBegin(k) ==
    /\ turns[k].pc = "idle"
    /\ k > 1 => turns[k - 1].pc # "idle"
    /\ \E s \in Sids :
         turns' = [turns EXCEPT ![k] =
                     [pc |-> "streaming", sid |-> s,
                      history |-> add_message(load_or_new(files[s], s, 0), "user",
                                              UserMsgOf(k), 0),
                      updated |-> new(s, 0), saved |-> "none"]]
    /\ UNCHANGED <<files, files0, persisted>>
    /\ UNCHANGED <<streamVars, apiVars>>

\* llm_task: the call failed, or the abort signal is set: no history update.
TurnSkip(k) ==
    /\ turns[k].pc = "streaming"
    /\ turns' = [turns EXCEPT ![k].pc = "done"]
    /\ UNCHANGED <<files, files0, persisted>>
    /\ UNCHANGED <<streamVars, apiVars>>

\* TurnLoad with the file of a fixed session read, whatever the turn's id.
TurnLoad_SharedFile(k) ==
    /\ turns[k].pc = "streaming"
    /\ turns' = [turns EXCEPT ![k].pc = "loaded",
                              ![k].updated =
                                 add_message(load_or_new(files["s1"], turns[k].sid, 0),
                                             "assistant", ReplyOf(k), 0)]
    /\ UNCHANGED <<files, files0, persisted>>
    /\ UNCHANGED <<streamVars, apiVars>>

\* llm_task, Ok(response_text) and not aborted: load_from_file(session_id)
\* (a fresh history on error) and add_message("assistant", response_text).
TurnLoad(k) ==
    /\ turns[k].pc = "streaming"
    /\ turns' = [turns EXCEPT ![k].pc = "loaded",
                              ![k].updated =
                                 add_message(load_or_new(files[turns[k].sid],
                                                         turns[k].sid, 0),
                                             "assistant", ReplyOf(k), 0)]
    /\ UNCHANGED <<files, files0, persisted>>
    /\ UNCHANGED <<streamVars, apiVars>>

\* save_to_file fails before the file is opened; the error is only logged.
SaveFail(k) ==
    /\ turns[k].pc = "loaded"
    /\ files' = [files EXCEPT ![turns[k].sid] =
                     save_to_file(@, turns[k].updated, "fail")]
    /\ turns' = [turns EXCEPT ![k].pc = "done", ![k].saved = "fail"]
    /\ UNCHANGED <<files0, persisted>>
    /\ UNCHANGED <<streamVars, apiVars>>

\* save_to_file, fs::write opens the file: it is truncated, the content is
\* not yet written.
SaveBegin(k) ==
    /\ turns[k].pc = "loaded"
    /\ files' = [files EXCEPT ![turns[k].sid] =
                     save_to_file(@, turns[k].updated, "partial")]
    /\ turns' = [turns EXCEPT ![k].pc = "writing", ![k].saved = "partial"]
    /\ UNCHANGED <<files0, persisted>>
    /\ UNCHANGED <<streamVars, apiVars>>

\* save_to_file, fs::write has written the whole content.
SaveEnd(k) ==
    /\ turns[k].pc = "writing"
    /\ files' = [files EXCEPT ![turns[k].sid] =
                     save_to_file(@, turns[k].updated, "ok")]
    /\ persisted' = [persisted EXCEPT ![turns[k].sid] = turns[k].updated.messages]
    /\ turns' = [turns EXCEPT ![k].pc = "done", ![k].saved = "ok"]
    /\ UNCHANGED files0
    /\ UNCHANGED <<streamVars, apiVars>>

\* The server process stops: every turn in flight ends where it is, the
\* files stay as they are. Turns that arrive later run in a new process.
Crash ==
    /\ \E k \in TurnIds : turns[k].pc \in {"streaming", "loaded", "writing"}
    /\ turns' = [k \in TurnIds |->
                   IF turns[k].pc \in {"streaming", "loaded", "writing"}
                   THEN [turns[k] EXCEPT !.pc = "dead"]
                   ELSE turns[k]]
    /\ UNCHANGED <<files, files0, persisted>>
    /\ UNCHANGED <<streamVars, apiVars>>

NextStore ==
    \/ \E k \in TurnIds : TurnBegin(k)
    \/ \E k \in TurnIds : TurnSkip(k)
    \/ \E k \in TurnIds : TurnLoad(k)
    \/ \E k \in TurnIds : SaveFail(k)
    \/ \E k \in TurnIds : SaveBegin(k)
    \/ \E k \in TurnIds : SaveEnd(k)
    \/ Crash

SpecStore == InitStore /\ [][NextStore]_vars

\* ------------------------------------------------------ concurrent streams
\* Two requests stream at the same time. Each has the state its handler
\* creates for it: the abort signal (create_abort_signal), the chunk channel,
\* and the full_text and buffer of its process_sse_events. `set` records that
\* a holder of this stream's signal has set it.
StreamIds == {1, 2}
StreamAlphabet(k) == IF k = 1 THEN <<"a", "<", "b", "c">> ELSE <<"x", "&", "y", "z">>
\* The i-th delta of the generator of stream k.
StreamDelta(k, i) == <<StreamAlphabet(k)[((i - 1) % 4) + 1]>>
IdleStream ==
    [pc |-> "idle", sid |-> "s1", abort_signal |-> FALSE, set |-> FALSE,
     deltas |-> <<>>, full_text |-> <<>>, buffer |-> <<>>, chunk_rx |-> <<>>,
     sent |-> <<>>, events |-> <<>>, em |-> "recv", failed |-> FALSE,
     saved |-> "none"]

InitStreams ==
    /\ ChatIdle
    /\ ApiIdle
    /\ files = [s \in Sids |-> IF s = "s1" THEN PriorFile(s) ELSE Missing]
    /\ files0 = files
    /\ turns = [k \in StreamIds |-> IdleStream]
    /\ persisted = <<>>

\* chat up to the spawn of llm_task: the start marker is yielded, the abort
\* signal and the chunk channel of this stream are created.
StreamBegin(k) ==
    /\ turns[k].pc = "idle"
    /\ k > 1 => turns[k - 1].pc # "idle"
    /\ \E s \in Sids :
         /\ k = 1 => s = "s1"
         /\ turns' = [turns EXCEPT ![k] =
                        [IdleStream EXCEPT !.pc = "streaming", !.sid = s,
                                           !.events = <<StartEvent>>]]
    /\ UNCHANGED <<files, files0, persisted>>
    /\ UNCHANGED <<streamVars, apiVars>>

\* SetAbort with one signal shared by all streams.
StreamSetAbort_Shared(k) ==
    /\ turns[k].pc \in {"streaming", "finalize", "join"}
    /\ ~turns[k].set
    /\ turns' = [j \in StreamIds |->
                   IF j = k THEN [turns[j] EXCEPT !.abort_signal = TRUE, !.set = TRUE]
                   ELSE [turns[j] EXCEPT !.abort_signal = TRUE]]
    /\ UNCHANGED <<files, files0, persisted>>
    /\ UNCHANGED <<streamVars, apiVars>>

\* A holder of stream k's AbortSignal sets it.
StreamSetAbort(k) ==
    /\ turns[k].pc \in {"streaming", "finalize", "join"}
    /\ ~turns[k].set
    /\ turns' = [turns EXCEPT ![k].abort_signal = TRUE, ![k].set = TRUE]
    /\ UNCHANGED <<files, files0, persisted>>
    /\ UNCHANGED <<streamVars, apiVars>>

\* process_sse_events of stream k takes the next delta of its generator.
StreamText(k) ==
    /\ turns[k].pc = "streaming"
    /\ Len(turns[k].deltas) < MaxStreamDeltas
    /\ LET d == StreamDelta(k, Len(turns[k].deltas) + 1)
       IN  turns' = [turns EXCEPT ![k].deltas = Append(@, d),
                                  ![k].full_text = @ \o d,
                                  ![k].buffer = @ \o d]
    /\ UNCHANGED <<files, files0, persisted>>
    /\ UNCHANGED <<streamVars, apiVars>>

\* process_sse_events of stream k takes a flush signal: a non-empty buffer is
\* sent as one chunk and cleared.
StreamFlush(k) ==
    /\ turns[k].pc = "streaming"
    /\ turns[k].buffer # <<>>
    /\ Len(turns[k].chunk_rx) < ChunkCap
    /\ turns' = [turns EXCEPT ![k].chunk_rx = Append(@, turns[k].buffer),
                              ![k].sent = Append(@, turns[k].buffer),
                              ![k].buffer = <<>>]
    /\ UNCHANGED <<files, files0, persisted>>
    /\ UNCHANGED <<streamVars, apiVars>>

\* The generator of stream k ends, with Ok or with an error; the handler sends
\* Done and process_sse_events flushes what is left and returns.
StreamDone(k) ==
    /\ turns[k].pc = "streaming"
    /\ \E failed \in BOOLEAN :
         turns' = [turns EXCEPT
                     ![k].chunk_rx = IF turns[k].buffer # <<>>
                                     THEN Append(@, turns[k].buffer) ELSE @,
                     ![k].sent = IF turns[k].buffer # <<>>
                                 THEN Append(@, turns[k].buffer) ELSE @,
                     ![k].buffer = <<>>,
                     ![k].failed = failed,
                     ![k].pc = "finalize"]
    /\ UNCHANGED <<files, files0, persisted>>
    /\ UNCHANGED <<streamVars, apiVars>>

\* The emitter of stream k yields the next chunk as a text event and then
\* reads its abort signal.
StreamYield(k) ==
    /\ turns[k].pc # "idle"
    /\ turns[k].em = "recv"
    /\ turns[k].chunk_rx # <<>>
    /\ turns' = [turns EXCEPT
                   ![k].events = Append(@, MessageEvent(Head(turns[k].chunk_rx))),
                   ![k].chunk_rx = Tail(@),
                   ![k].em = IF turns[k].abort_signal THEN "broke" ELSE "recv"]
    /\ UNCHANGED <<files, files0, persisted>>
    /\ UNCHANGED <<streamVars, apiVars>>

\* llm_task of stream k after the call: with Ok and its abort signal not set,
\* load, add the assistant message, save.
StreamFinalize(k) ==
    /\ turns[k].pc = "finalize"
    /\ IF turns[k].failed \/ turns[k].abort_signal
       THEN /\ turns' = [turns EXCEPT ![k].pc = "join"]
            /\ UNCHANGED files
       ELSE \E outcome \in SaveOutcomes :
              LET s == turns[k].sid
              IN  /\ files' = [files EXCEPT ![s] =
                                 save_to_file(files[s],
                                     add_message(load_or_new(files[s], s, 0),
                                                 "assistant", turns[k].full_text, 0),
                                     outcome)]
                  /\ turns' = [turns EXCEPT ![k].pc = "join", ![k].saved = outcome]
    /\ UNCHANGED <<files0, persisted>>
    /\ UNCHANGED <<streamVars, apiVars>>

\* The emitter of stream k, out of its loop, joins llm_task: unless its abort
\* signal is set it yields the error event of a failed task and the end marker.
StreamEnd(k) ==
    /\ turns[k].pc = "join"
    /\ turns[k].em = "broke" \/ turns[k].chunk_rx = <<>>
    /\ turns' = [turns EXCEPT
                   ![k].events = IF turns[k].abort_signal THEN @
                                 ELSE IF turns[k].failed
                                      THEN @ \o <<ErrorEvent(GenErrorText), EndEvent>>
                                 ELSE Append(@, EndEvent),
                   ![k].pc = "done"]
    /\ UNCHANGED <<files, files0, persisted>>
    /\ UNCHANGED <<streamVars, apiVars>>

NextStreams ==
    \/ \E k \in StreamIds : StreamBegin(k)
    \/ \E k \in StreamIds : StreamSetAbort(k)
    \/ \E k \in StreamIds : StreamText(k)
    \/ \E k \in StreamIds : StreamFlush(k)
    \/ \E k \in StreamIds : StreamDone(k)
    \/ \E k \in StreamIds : StreamYield(k)
    \/ \E k \in StreamIds : StreamFinalize(k)
    \/ \E k \in StreamIds : StreamEnd(k)

SpecStreams == InitStreams /\ [][NextStreams]_vars

\* ------------------------------------------- the functions, one call each
\* A behaviour of the function specification is one call of a store function
\* on any input, or any sequence of calls of get_or_create_session_id.
\* serde_json writes a string between quotes with ", \ and the line feed
\* escaped, and an i64 in decimal; from_str reads them back, and fails on an
\* escape it does not know or on a number with no digits.
EscapeChar(c) ==
    IF c = "\"" THEN <<"\\", "\"">>
    ELSE IF c = "\\" THEN <<"\\", "\\">>
    ELSE IF c = "\n" THEN <<"\\", "n">>
    ELSE <<c>>

json_escape(str) == Concat([i \in 1..Len(str) |-> EscapeChar(str[i])])

\* Marks an escape from_str does not know.
BadChar == "<bad escape>"

RECURSIVE json_unescape(_)
json_unescape(str) ==
    IF str = <<>> THEN <<>>
    ELSE IF Head(str) # "\\" THEN <<Head(str)>> \o json_unescape(Tail(str))
    ELSE IF Len(str) < 2 \/ str[2] \notin {"\"", "\\", "n"} THEN <<BadChar>>
    ELSE <<IF str[2] = "n" THEN "\n" ELSE str[2]>>
             \o json_unescape(SubSeq(str, 3, Len(str)))

BadString(str) == \E i \in 1..Len(str) : str[i] = BadChar

DigitChars == <<"0", "1", "2", "3", "4", "5", "6", "7", "8", "9">>

RECURSIVE itoa(_)
itoa(n) ==
    IF n < 10 THEN <<DigitChars[n + 1]>>
    ELSE itoa(n \div 10) \o <<DigitChars[(n % 10) + 1]>>

DigitValue(c) == CHOOSE d \in 0..9 : DigitChars[d + 1] = c

RECURSIVE atoi(_)
atoi(ds) ==
    IF Len(ds) = 1 THEN DigitValue(ds[1])
    ELSE 10 * atoi(SubSeq(ds, 1, Len(ds) - 1)) + DigitValue(ds[Len(ds)])

\* to_string_pretty with every updated_at written as created_at.
to_string_pretty_StaleUpdated(h) ==
    [session_id |-> h.session_id,
     messages |-> [i \in 1..Len(h.messages) |->
                     [role |-> h.messages[i].role,
                      content |-> json_escape(h.messages[i].content),
                      timestamp |-> itoa(h.messages[i].timestamp)]],
     created_at |-> itoa(h.created_at),
     updated_at |-> itoa(h.created_at)]

\* serde_json::to_string_pretty(self): the JSON document of a history. The
\* session ids and roles used here hold no character that is escaped.
to_string_pretty(h) ==
    [session_id |-> h.session_id,
     messages |-> [i \in 1..Len(h.messages) |->
                     [role |-> h.messages[i].role,
                      content |-> json_escape(h.messages[i].content),
                      timestamp |-> itoa(h.messages[i].timestamp)]],
     created_at |-> itoa(h.created_at),
     updated_at |-> itoa(h.updated_at)]

\* serde_json::from_str(&json_content): the history of a document, or Err.
from_str(doc) ==
    IF \/ doc.created_at = <<>>
       \/ doc.updated_at = <<>>
       \/ \E i \in 1..Len(doc.messages) :
             \/ doc.messages[i].timestamp = <<>>
             \/ BadString(json_unescape(doc.messages[i].content))
    THEN [ok |-> FALSE, value |-> new("", 0)]
    ELSE [ok |-> TRUE,
          value |-> [session_id |-> doc.session_id,
                     messages |-> [i \in 1..Len(doc.messages) |->
                                     ConversationMessage(
                                         doc.messages[i].role,
                                         json_unescape(doc.messages[i].content),
                                         atoi(doc.messages[i].timestamp))],
                     created_at |-> atoi(doc.created_at),
                     updated_at |-> atoi(doc.updated_at)]]

\* The file that holds a document, as load_from_file reads it.
FileOf(doc) == IF from_str(doc).ok THEN Stored(from_str(doc).value) ELSE Corrupt

\* The histories given to the functions: new at second T0, then up to MaxMsgs
\* messages added one second apart.
T0 == 98
ApiSid == "s1"
ApiRoles == {"user", "assistant", "system"}
Hi == <<"H", "i">>
Hello == <<"H", "e", "l", "l", "o">>
HowAreYou == <<"H", "o", "w", " ", "a", "r", "e", " ", "y", "o", "u", "?">>
Escaped == <<"\"", "\\", "n", "\n">>
\* The contents tried for the i-th message of a history.
ApiContents(i) ==
    IF i % 3 = 1 THEN {Hi, <<>>, Escaped}
    ELSE IF i % 3 = 2 THEN {Hello, Escaped}
    ELSE {HowAreYou, <<>>}

RECURSIVE HistoriesOf(_)
HistoriesOf(n) ==
    IF n = 0 THEN {new(ApiSid, T0)}
    ELSE {add_message(h, r, c, T0 + n) :
             h \in HistoriesOf(n - 1), r \in ApiRoles, c \in ApiContents(n)}

ApiHistories == UNION {HistoriesOf(n) : n \in 0..MaxMsgs}

\* to_conversation_text: the label of a message that is not the last one.
RoleChars(role) ==
    IF role = "user" THEN <<"u", "s", "e", "r">>
    ELSE IF role = "assistant" THEN <<"a", "s", "s", "i", "s", "t", "a", "n", "t">>
    ELSE <<"s", "y", "s", "t", "e", "m">>

role_prefix(role) ==
    IF role = "user" THEN <<"H", "u", "m", "a", "n">>
    ELSE IF role = "assistant"
         THEN <<"A", "s", "s", "i", "s", "t", "a", "n", "t">>
    ELSE RoleChars(role)

\* [String]::join(sep).
RECURSIVE join(_, _)
join(parts, sep) ==
    IF parts = <<>> THEN <<>>
    ELSE IF Len(parts) = 1 THEN parts[1]
    ELSE parts[1] \o sep \o join(Tail(parts), sep)

\* to_conversation_text with the last message labelled like the others.
to_conversation_text_LabelsLast(h) ==
    IF h.messages = <<>> THEN <<>>
    ELSE LET n == Len(h.messages)
             labelled == [i \in 1..n |->
                            role_prefix(h.messages[i].role) \o <<":", " ">>
                                \o h.messages[i].content]
         IN  join(labelled, <<"\n", "\n">>)

\* ConversationHistory::to_conversation_text.
to_conversation_text(h) ==
    IF h.messages = <<>> THEN <<>>
    ELSE LET n == Len(h.messages)
             labelled == [i \in 1..(n - 1) |->
                            role_prefix(h.messages[i].role) \o <<":", " ">>
                                \o h.messages[i].content]
             parts == IF h.messages[n].role = "user"
                      THEN Append(labelled, h.messages[n].content)
                      ELSE labelled
         IN  join(parts, <<"\n", "\n">>)

\* The text of a session_id cookie: a UUID in one of the forms Uuid::parse_str
\* accepts, some other text, or no cookie. Uuid::to_string writes the
\* hyphenated lower-case form.
UuidPool == 1..MaxIds
UuidForms == {"hyphenated", "simple", "urn", "braced", "upper"}
NoCookie == [id |-> 0, form |-> "none"]
Garbage == [id |-> 0, form |-> "garbage"]
CookieValues ==
    {NoCookie, Garbage} \cup [id : UuidPool, form : UuidForms]

parse_str(text) == [ok |-> text.form \in UuidForms, uuid |-> text.id]
to_string(uuid) == [id |-> uuid, form |-> "hyphenated"]

\* Cookie::new("session_id", ..) with max age, same-site and http-only set.
SessionCookie(value) ==
    [name |-> "session_id", value |-> value, max_age_days |-> 30,
     same_site |-> "Lax", http_only |-> TRUE]

\* get_or_create_session_id with a valid cookie ignored.
get_or_create_session_id_Reissues(cookie, fresh) ==
    [session_id |-> to_string(fresh),
     added |-> <<SessionCookie(to_string(fresh))>>]

\* get_or_create_session_id with the new id not attached to the response.
get_or_create_session_id_NoCookie(cookie, fresh) ==
    IF cookie # NoCookie /\ parse_str(cookie).ok
    THEN [session_id |-> to_string(parse_str(cookie).uuid), added |-> <<>>]
    ELSE [session_id |-> to_string(fresh), added |-> <<>>]

\* get_or_create_session_id: the id and the cookies added to the jar; `fresh`
\* is what Uuid::new_v4() returns when it is called.
get_or_create_session_id(cookie, fresh) ==
    IF cookie # NoCookie /\ parse_str(cookie).ok
    THEN [session_id |-> to_string(parse_str(cookie).uuid), added |-> <<>>]
    ELSE [session_id |-> to_string(fresh),
          added |-> <<SessionCookie(to_string(fresh))>>]

\* load_from_file(session_id) on a file that is missing, unparseable or holds
\* a history; the file is only read.
LoadFromFile ==
    /\ op = "none"
    /\ \E h \in ApiHistories : \E f \in {Missing, Corrupt, FileOf(to_string_pretty(h))} :
         /\ arg' = [file |-> f, session_id |-> ApiSid, t |-> T0 + 1]
         /\ res' = [loaded |-> load_from_file(f, ApiSid, T0 + 1), file |-> f]
    /\ op' = "load"
    /\ UNCHANGED issued
    /\ UNCHANGED <<streamVars, storeVars>>

\* history.save_to_file() succeeds, then load_from_file(history.session_id).
SaveThenLoad ==
    /\ op = "none"
    /\ \E h \in ApiHistories :
         /\ arg' = h
         /\ res' = load_from_file(FileOf(to_string_pretty(h)), h.session_id,
                                  h.updated_at + 1)
    /\ op' = "save_load"
    /\ UNCHANGED issued
    /\ UNCHANGED <<streamVars, storeVars>>

\* The session ids of the data directory, one file data/<id>.json each.
ApiSids == {ApiSid, "s2"}

\* load_from_file(session_id), then save_to_file() on the history it gave,
\* which writes data/<history.session_id>.json. The file of session_id is
\* absent, unparseable, or a record that may carry another session's id.
LoadThenSave ==
    /\ op = "none"
    /\ \E h \in ApiHistories : \E session_id \in ApiSids :
       \E f \in {Missing, Corrupt, FileOf(to_string_pretty(h))} :
         LET dir == [k \in ApiSids |-> IF k = session_id THEN f ELSE Missing]
             loaded == load_from_file(dir[session_id], session_id, T0 + 1)
         IN  /\ arg' = [dir |-> dir, session_id |-> session_id]
             /\ res' = [loaded |-> loaded,
                        dir |-> IF loaded.ok
                                THEN [dir EXCEPT ![loaded.history.session_id] =
                                         save_to_file(@, loaded.history, "ok")]
                                ELSE dir]
    /\ op' = "load_save"
    /\ UNCHANGED issued
    /\ UNCHANGED <<streamVars, storeVars>>

\* history.to_conversation_text().
ToConversationText ==
    /\ op = "none"
    /\ \E h \in ApiHistories :
         /\ arg' = h
         /\ res' = to_conversation_text(h)
    /\ op' = "render"
    /\ UNCHANGED issued
    /\ UNCHANGED <<streamVars, storeVars>>

\* get_or_create_session_id(cookies) for a request with any cookie text;
\* Uuid::new_v4() returns a UUID it has not returned before.
GetOrCreateSessionId ==
    /\ op \in {"none", "session"}
    /\ \E cookie \in CookieValues :
         IF cookie # NoCookie /\ parse_str(cookie).ok
         THEN /\ arg' = cookie
              /\ res' = get_or_create_session_id(cookie, 0)
              /\ UNCHANGED issued
         ELSE \E fresh \in UuidPool \ issued :
                /\ arg' = cookie
                /\ res' = get_or_create_session_id(cookie, fresh)
                /\ issued' = issued \cup {fresh}
    /\ op' = "session"
    /\ UNCHANGED <<streamVars, storeVars>>

\* history.add_message(role, content) at wall-clock second t, on any history.
AddMessage ==
    /\ op = "none"
    /\ \E h \in ApiHistories : \E role \in ApiRoles :
         \E content \in ApiContents(Len(h.messages) + 1) :
         \E t \in {h.updated_at, h.updated_at + 1} :
            /\ arg' = [history |-> h, role |-> role, content |-> content, t |-> t]
            /\ res' = add_message(h, role, content, t)
    /\ op' = "add"
    /\ UNCHANGED issued
    /\ UNCHANGED <<streamVars, storeVars>>

\* The life of one history value: `res` is the history in memory, `arg` its
\* file, the wall clock (chrono::Utc::now().timestamp(), which does not run
\* backwards) and the last call made.
Life(f, clock, call) == [file |-> f, clock |-> clock, call |-> call]
ClockSteps == {0, 1}
Clock(t) == t \in T0..(T0 + MaxClock)

\* ConversationHistory::new(session_id).
HistoryNew ==
    /\ op = "none"
    /\ res' = new(ApiSid, T0)
    /\ arg' = Life(Missing, T0, "new")
    /\ op' = "life"
    /\ UNCHANGED issued
    /\ UNCHANGED <<streamVars, storeVars>>

\* history.add_message(role, content), dt seconds after the last call.
HistoryAdd ==
    /\ op = "life"
    /\ Len(res.messages) < MaxMsgs
    /\ \E dt \in ClockSteps :
         /\ Clock(arg.clock + dt)
         /\ res' = add_message(res, IF Len(res.messages) % 2 = 0 THEN "user"
                                    ELSE "assistant", Hi, arg.clock + dt)
         /\ arg' = Life(arg.file, arg.clock + dt, "add")
    /\ UNCHANGED <<op, issued>>
    /\ UNCHANGED <<streamVars, storeVars>>

\* history.save_to_file(): the document is written, or the write fails.
HistorySave ==
    /\ op = "life"
    /\ \E outcome \in SaveOutcomes :
         arg' = Life(IF outcome = "ok" THEN FileOf(to_string_pretty(res))
                     ELSE save_to_file(arg.file, res, outcome),
                     arg.clock, "save")
    /\ UNCHANGED <<op, res, issued>>
    /\ UNCHANGED <<streamVars, storeVars>>

\* ConversationHistory::load_from_file(session_id), dt seconds after the last
\* call; on Err the caller goes on with ConversationHistory::new.
HistoryLoad ==
    /\ op = "life"
    /\ arg.call # "load"
    /\ \E dt \in ClockSteps :
         /\ Clock(arg.clock + dt)
         /\ res' = load_or_new(arg.file, ApiSid, arg.clock + dt)
         /\ arg' = Life(arg.file, arg.clock + dt, "load")
    /\ UNCHANGED <<op, issued>>
    /\ UNCHANGED <<streamVars, storeVars>>

\* The characters of the chunks given to html_escape, and the chunks.
EscChars == {"a", "&", "<", ">", "\"", "'"}
EscChunks == UNION {[1..n -> EscChars] : n \in 0..MaxEscLen}

\* The emitter's html_escape(&chunk) on two consecutive chunks of a stream,
\* next to html_escape of the text they make up.
HtmlEscape ==
    /\ op = "none"
    /\ \E x \in EscChunks : \E y \in EscChunks :
         /\ arg' = [first |-> x, second |-> y]
         /\ res' = [first |-> html_escape(x), second |-> html_escape(y),
                    whole |-> html_escape(x \o y)]
    /\ op' = "html_escape"
    /\ UNCHANGED issued
    /\ UNCHANGED <<streamVars, storeVars>>

InitApi ==
    /\ ChatIdle
    /\ StoreIdle
    /\ ApiIdle

NextApi ==
    \/ LoadFromFile
    \/ LoadThenSave
    \/ HtmlEscape
    \/ SaveThenLoad
    \/ ToConversationText
    \/ GetOrCreateSessionId
    \/ AddMessage
    \/ HistoryNew
    \/ HistoryAdd
    \/ HistorySave
    \/ HistoryLoad

SpecApi == InitApi /\ [][NextApi]_vars

\* ---------------------------------------------- a turn with a stalled client
\* The streaming turn followed up to the capacity of the chunk channel: the
\* client may stop reading for a while, so that sent chunks queue up in
\* chunk_rx. The text itself is not followed here: every delta is the text
\* "a", buffer is empty or holds that mark, and full_text, sent and events
\* record nothing of the deltas. The generator keeps at most one event ahead
\* of the scheduler. A tick of the interval task and the receipt of its flush
\* signal are one step, and a flush of an empty buffer, which changes
\* nothing, is left out.
Mark == <<"a">>

\* handler.text(delta): one more Text event on the sse channel.
BacklogGenText ==
    /\ gen_pc = "run"
    /\ sse_rx = <<>>
    /\ sse_rx' = <<Text(Mark)>>
    /\ UNCHANGED <<sse_open, ps_pc, full_text, buffer, timer_started, interval,
                   flush_rx, chunk_rx, tx_alive, sent, nflush, nticks, sent_at>>
    /\ UNCHANGED <<genVars, chatVars, timeVars>>
    /\ UNCHANGED otherVars

\* select!, sse_rx.recv() => Some(SseEvent::Text(text)): buffer.push_str(text)
BacklogRecvText ==
    /\ ps_pc = "select"
    /\ sse_rx # <<>>
    /\ Head(sse_rx).type = "Text"
    /\ sse_rx' = Tail(sse_rx)
    /\ buffer' = Mark
    /\ UNCHANGED <<sse_open, ps_pc, full_text, timer_started, interval, flush_rx,
                   chunk_rx, tx_alive, sent, nflush, nticks, sent_at>>
    /\ UNCHANGED <<genVars, chatVars, timeVars>>
    /\ UNCHANGED otherVars

\* select!, flush_rx.recv() with a non-empty buffer: sender.send(buffer.clone())
\* waits for room in the chunk channel, then the buffer is cleared; with the
\* receiver gone the send fails and the loop breaks.
BacklogFlush ==
    /\ ps_pc = "select"
    /\ buffer # <<>>
    /\ CanSend
    /\ IF rx_alive
       THEN /\ chunk_rx' = Append(chunk_rx, buffer)
            /\ buffer' = <<>>
            /\ UNCHANGED <<ps_pc, tx_alive>>
       ELSE /\ ps_pc' = "done"
            /\ tx_alive' = FALSE
            /\ UNCHANGED <<chunk_rx, buffer>>
    /\ UNCHANGED <<sse_rx, sse_open, full_text, timer_started, interval, flush_rx,
                   sent, nflush, nticks, sent_at>>
    /\ UNCHANGED <<genVars, chatVars, timeVars>>
    /\ UNCHANGED otherVars

\* while let Some(chunk) = chunk_rx.recv().await: the emitter takes the next
\* chunk and yields it; the yield completes once the client has read it.
BacklogRecvChunk ==
    /\ em_pc = "recv"
    /\ chunk_rx # <<>>
    /\ chunk_rx' = Tail(chunk_rx)
    /\ em_pc' = "check"
    /\ UNCHANGED <<file, history, abort_signal, events, rx_alive, ll_pc,
                   call_result, task_result, ev_at_abort, saved>>
    /\ UNCHANGED <<sse_rx, sse_open, ps_pc, full_text, buffer, timer_started,
                   interval, flush_rx, tx_alive, sent, nflush, nticks, sent_at>>
    /\ UNCHANGED <<genVars, timeVars>>
    /\ UNCHANGED otherVars

InitBacklog ==
    /\ Init
    /\ file = Missing

\* A step of one of the program's tasks: the emitter, llm_task, the scheduler.
BacklogTaskStep ==
    \/ EmitStart
    \/ SpawnLlmTask
    \/ BacklogRecvChunk
    \/ RecvClosed
    \/ CheckAbortAfterYield
    \/ JoinLlmTask
    \/ EmitEndAfterError
    \/ LlmSetup
    \/ LlmAbortCheck
    \/ LlmResolve
    \/ LlmResult
    \/ LlmPersist
    \/ BacklogRecvText
    \/ BacklogFlush
    \/ RecvDone

NextBacklog ==
    \/ ChatBegin
    \/ ClientDisconnect
    \/ SetAbort
    \/ BacklogGenText
    \/ GenDone
    \/ GenError
    \/ BacklogTaskStep

\* The runtime runs every task that is ready: no step of a task stays
\* possible for ever without being taken. Nothing is assumed of the client,
\* of the holder of the abort signal or of the generator.
BacklogFairness ==
    /\ WF_vars(EmitStart)
    /\ WF_vars(SpawnLlmTask)
    /\ WF_vars(BacklogRecvChunk)
    /\ WF_vars(RecvClosed)
    /\ WF_vars(CheckAbortAfterYield)
    /\ WF_vars(JoinLlmTask)
    /\ WF_vars(EmitEndAfterError)
    /\ WF_vars(LlmSetup)
    /\ WF_vars(LlmAbortCheck)
    /\ WF_vars(LlmResolve)
    /\ WF_vars(LlmResult)
    /\ WF_vars(LlmPersist)
    /\ WF_vars(BacklogRecvText)
    /\ WF_vars(BacklogFlush)
    /\ WF_vars(RecvDone)

SpecBacklog == InitBacklog /\ [][NextBacklog]_vars /\ BacklogFairness

\* ------------------------------------------------------------------ claims
Scenario == ScheduleOf(4, <<10, 140, 10, 10>>, Done)
ScenarioChunks == <<ScriptAt(1) \o ScriptAt(2), ScriptAt(3) \o ScriptAt(4)>>

\* C1: with a flush interval of 100 ms, deltas "He", "llo ", "Wor", "ld" at
\* t = 0, 10, 150, 160 ms and Done at 170 ms give exactly the chunks "Hello "
\* (at the tick at 100 ms) and "World" (at Done, 170 ms), never more; and for
\* every schedule the chunks sent number at most the flush signals taken,
\* plus one for the flush at completion.
C1_Coalescing ==
    /\ schedule = Scenario =>
          /\ Len(sent) <= 2
          /\ \A i \in 1..Len(sent) :
                sent[i] = ScenarioChunks[i] /\ sent_at[i] = <<100, 170>>[i]
          /\ ps_pc = "done" => Len(sent) = 2
    /\ Len(sent) <= nflush + 1
    /\ ps_pc = "select" => Len(sent) <= nflush

C1_Witness ==
    /\ schedule = Scenario
    /\ ps_pc = "done"
    /\ sent = ScenarioChunks
    /\ Len(deltas) = 4

IsTextEvent(e) == e.event = "message" /\ Head(e.data) = "<span>"
IsErrorEvent(e) == e.event = "message" /\ Head(e.data) = "<span>Error: "
\* The events yielded since abort_signal was set.
AfterAbort == SubSeq(events, ev_at_abort + 1, Len(events))

\* C2: once the abort signal is set, the emitter yields at most one further
\* text event and never the end marker or an error event.
C2_CancelHaltsOutput ==
    abort_signal =>
        /\ Len(AfterAbort) <= 1
        /\ \A i \in 1..Len(AfterAbort) : IsTextEvent(AfterAbort[i])

\* C3 as stated: on a turn whose abort signal was set before the turn
\* resolved, the persisted record is what it was before the turn.
C3_Original ==
    (Resolved /\ abort_signal) => file = file0

\* C3, amended: once the abort signal is set before llm_task's finalize check
\* (`if !abort_signal_for_llm.aborted()`) has passed, the history update is
\* never entered and the persisted record never changes.
C3_NoPersistAfterCancel ==
    [][(abort_signal /\ ll_pc # "persist")
         => (abort_signal' /\ ll_pc' # "persist" /\ file' = file)]_vars

C3_Witness ==
    /\ abort_signal
    /\ Resolved
    /\ call_result.kind = "ok"
    /\ call_result.text = Concat(deltas)
    /\ call_result.text # <<>>
    /\ saved = "none"
    /\ file = file0

\* C4: once the client has disconnected (the stream was dropped), the
\* stream's abort signal is set.
C4_Original ==
    em_pc = "dropped" => abort_signal

HasMessage(f, i, role, content) ==
    /\ f.kind = "json"
    /\ i \in 1..Len(f.value.messages)
    /\ f.value.messages[i].role = role
    /\ f.value.messages[i].content = content

HasErrorEvent == \E i \in 1..Len(events) : IsErrorEvent(events[i])

\* The turn completed: the stream ended with the end marker, with no error
\* event and no cancellation.
Completed ==
    /\ em_pc = "done"
    /\ ~abort_signal
    /\ events[Len(events)] = EndEvent
    /\ ~HasErrorEvent

\* C5: after any turn the persisted record holds the turn's User message,
\* and after a completed turn the turn's Assistant message follows it.
C5_Original ==
    Resolved =>
        \E i \in 1..Len(file.value.messages) :
            /\ HasMessage(file, i, "user", UserMsg)
            /\ Completed => HasMessage(file, i + 1, "assistant", Concat(deltas))

\* The history that the finalize step of a completed turn is to persist.
ExpectedHistory ==
    add_message(load_or_new(file0, Sid, 0), "assistant", Concat(deltas), 0)

\* C6 as stated: after a completed turn the persisted record is the prior
\* record with one Assistant message appended, the concatenation of the deltas.
C6_Original ==
    Completed => file = Stored(ExpectedHistory)

\* C6, amended: after a completed turn exactly one Assistant message, the
\* concatenation of the turn's deltas in arrival order, was appended to the
\* record loaded at finalize and handed to save_to_file once; the persisted
\* record is the prior record followed by that message when the save
\* succeeded (a failed save is only logged).
C6_AssistantAppended ==
    Completed =>
        /\ saved # "none"
        /\ call_result = Ok(Concat(deltas))
        /\ file = save_to_file(file0, ExpectedHistory, saved)

C6_Witness ==
    /\ Completed
    /\ saved = "ok"
    /\ file0.kind = "json"
    /\ file = Stored(ExpectedHistory)
    /\ Len(sent) >= 2
    /\ Len(deltas) = MaxDeltas

TextEvents == SelectSeq(events, IsTextEvent)
ErrorEvents == SelectSeq(events, IsErrorEvent)
EndEvents == SelectSeq(events, LAMBDA e : e = EndEvent)

\* C7: the stream starts with exactly one start marker, before any text
\* event; the end marker is yielded at most once and nothing follows it; a
\* stream that ends without cancellation ends with the end marker.
C7_Framing ==
    /\ events # <<>> =>
          /\ events[1] = StartEvent
          /\ \A i \in 2..Len(events) : events[i] # StartEvent
    /\ \A i \in 1..Len(events) : events[i] = EndEvent => i = Len(events)
    /\ (em_pc = "done" /\ ~abort_signal) => events[Len(events)] = EndEvent

C7_Witness ==
    /\ Completed
    /\ Len(TextEvents) >= 2
    /\ Len(EndEvents) = 1

\* C8: the chunks sent so far, concatenated, are a prefix of full_text, the
\* deltas received so far; what is missing is exactly the buffer; and
\* full_text is a prefix of the deltas the generator sent, in their order.
C8_ChunksArePrefix ==
    /\ IsPrefix(Concat(sent), full_text)
    /\ Concat(sent) \o buffer = full_text
    /\ IsPrefix(full_text, Concat(deltas))

C8_Witness ==
    /\ Len(sent) >= 2
    /\ buffer # <<>>
    /\ ps_pc = "select"

\* C9: no chunk sent to the chunk channel is empty, and every text event
\* carries a non-empty content between <span> and </span>.
C9_NoEmptyChunk ==
    /\ \A i \in 1..Len(sent) : sent[i] # <<>>
    /\ \A i \in 1..Len(chunk_rx) : chunk_rx[i] # <<>>
    /\ \A i \in 1..Len(events) : IsTextEvent(events[i]) => Len(events[i].data) > 2

\* A second flush signal found the buffer empty after the first one sent it.
C9_Witness ==
    /\ nflush = 2
    /\ Len(sent) = 1
    /\ buffer = <<>>
    /\ ps_pc = "select"
    /\ Len(TextEvents) = 1

\* The generation failed: the call or the llm_task returned Err.
GeneratorFailed == call_result.kind = "err" \/ streaming_result.kind = "err"

\* C10: a stream that ends after a failed generation with the abort signal
\* not set at the emitter's check has yielded exactly one error event,
\* directly followed by the one end marker; if the abort signal is set before
\* any error event was yielded, no error event and no end marker is yielded.
C10_ErrorReporting ==
    /\ (em_pc = "done" /\ GeneratorFailed
          /\ (abort_signal => Len(SelectSeq(AfterAbort, IsErrorEvent)) = 0 /\ HasErrorEvent))
         => /\ Len(ErrorEvents) = 1
            /\ Len(EndEvents) = 1
            /\ Len(events) >= 3
            /\ events[Len(events) - 1] = ErrorEvent(task_result.text)
            /\ events[Len(events)] = EndEvent
    /\ (abort_signal /\ GeneratorFailed
          /\ Len(SelectSeq(SubSeq(events, 1, ev_at_abort), IsErrorEvent)) = 0)
         => /\ Len(ErrorEvents) = 0
            /\ Len(EndEvents) = 0

C10_Witness ==
    /\ em_pc = "done"
    /\ ~abort_signal
    /\ streaming_result.kind = "err"
    /\ Len(TextEvents) >= 1
    /\ events[Len(events) - 1] = ErrorEvent(GenErrorText)
    /\ events[Len(events)] = EndEvent

\* C11: no step of a turn resets the abort signal: once set it stays set
\* until the turn resolves, and setting it again leaves it set and changes
\* nothing else (the point where it was first set is kept).
C11_FlagMonotonic ==
    [][abort_signal => (abort_signal' /\ ev_at_abort' = ev_at_abort)]_vars

\* The signal was set while text was streaming and is still set at the end.
C11_Witness ==
    /\ abort_signal
    /\ Resolved
    /\ ev_at_abort >= 2
    /\ ll_pc = "done"

\* How often a message with this role and content occurs in a sequence.
Count(msgs, role, content) ==
    Len(SelectSeq(msgs, LAMBDA m : m.role = role /\ m.content = content))

\* Turns j and k ran on the same session id, both saved their history, and no
\* other turn ran.
BothSaved(j, k) ==
    /\ j # k
    /\ turns[j].pc = "done" /\ turns[j].saved = "ok"
    /\ turns[k].pc = "done" /\ turns[k].saved = "ok"
    /\ turns[j].sid = turns[k].sid
    /\ \A i \in TurnIds \ {j, k} : turns[i].pc = "idle"

\* C12: after two turns on one session id have both completed and saved, the
\* persisted record holds the Assistant message of each of them exactly once.
C12_Original ==
    \A j, k \in TurnIds :
        BothSaved(j, k) =>
            /\ Count(MessagesOf(files[turns[j].sid]), "assistant", ReplyOf(j)) = 1
            /\ Count(MessagesOf(files[turns[j].sid]), "assistant", ReplyOf(k)) = 1

\* Turn k is the only turn that has run on session id s.
OnlyTurnOn(k, s) ==
    /\ turns[k].pc # "idle"
    /\ turns[k].sid = s
    /\ \A j \in TurnIds \ {k} : turns[j].pc = "idle" \/ turns[j].sid # s

\* What turn k loads, and what the file of its session holds, when it runs
\* alone from the files the server started with.
AloneHistory(k) ==
    add_message(load_or_new(files0[turns[k].sid], turns[k].sid, 0), "user",
                UserMsgOf(k), 0)
AloneUpdated(k) ==
    add_message(load_or_new(files0[turns[k].sid], turns[k].sid, 0), "assistant",
                ReplyOf(k), 0)
AloneFile(k) ==
    IF turns[k].saved = "none" THEN files0[turns[k].sid]
    ELSE save_to_file(files0[turns[k].sid], AloneUpdated(k), turns[k].saved)

\* C13: a turn that is the only one on its session id loads what it would
\* load alone and leaves the file of its session as it would alone, at every
\* step and whatever turns on other session ids do.
C13_SessionIsolation ==
    \A k \in TurnIds : \A s \in Sids :
        OnlyTurnOn(k, s) =>
            /\ turns[k].history = AloneHistory(k)
            /\ turns[k].saved # "none" => turns[k].updated = AloneUpdated(k)
            /\ files[s] = AloneFile(k)

\* Two turns on distinct session ids have both saved over a prior record.
C13_Witness ==
    /\ turns[1].sid # turns[2].sid
    /\ turns[1].pc = "done" /\ turns[1].saved = "ok"
    /\ turns[2].pc = "done" /\ turns[2].saved = "ok"
    /\ files0["s1"] = PriorFile("s1")
    /\ files0["s2"] = Missing
    /\ files["s2"].kind = "json"

\* C14: the file of a session that was absent or parseable when the server
\* started never becomes unparseable, at any step.
C14_Original ==
    \A s \in Sids : files0[s].kind # "corrupt" => files[s].kind # "corrupt"

\* C15: the messages of a session's last complete record are a prefix of the
\* messages of every complete record written after it.
C15_Original ==
    [][\A s \in Sids :
          files'[s].kind = "json" => IsPrefix(persisted[s], files'[s].value.messages)]_vars

\* C16: save_to_file followed by load_from_file with the same session id
\* gives back the session id, every message (role, content, timestamp, in
\* order) and created_at and updated_at.
C16_RoundTrip ==
    op = "save_load" =>
        /\ res.ok
        /\ res.history.session_id = arg.session_id
        /\ Len(res.history.messages) = Len(arg.messages)
        /\ \A i \in 1..Len(arg.messages) :
              /\ res.history.messages[i].role = arg.messages[i].role
              /\ res.history.messages[i].content = arg.messages[i].content
              /\ res.history.messages[i].timestamp = arg.messages[i].timestamp
        /\ res.history.created_at = arg.created_at
        /\ res.history.updated_at = arg.updated_at

\* A history of several messages, one of them with characters JSON escapes.
C16_Witness ==
    /\ op = "save_load"
    /\ Len(arg.messages) >= 2
    /\ arg.updated_at # arg.created_at
    /\ \E i \in 1..Len(arg.messages) : arg.messages[i].content = Escaped
    /\ res.ok

\* C17: load_from_file of a session id with no file returns Ok with no
\* messages, the requested session id and created_at = updated_at, and the
\* file is still absent afterwards.
C17_FreshOnMissing ==
    (op = "load" /\ arg.file = Missing) =>
        /\ res.loaded.ok
        /\ res.loaded.history.messages = <<>>
        /\ res.loaded.history.session_id = arg.session_id
        /\ res.loaded.history.created_at = res.loaded.history.updated_at
        /\ res.file = Missing

C17_Witness ==
    /\ op = "load"
    /\ arg.file = Missing
    /\ res.loaded.ok
    /\ res.loaded.history.created_at = arg.t

\* The rendering of one message that is not the last: label, ": ", content.
Labelled(m) ==
    (IF m.role = "user" THEN <<"H", "u", "m", "a", "n">>
     ELSE IF m.role = "assistant" THEN <<"A", "s", "s", "i", "s", "t", "a", "n", "t">>
     ELSE RoleChars(m.role)) \o <<":", " ">> \o m.content

\* The text of a message sequence: the empty string for none; every message but
\* the last labelled; the last one raw if and only if it is a user message;
\* a blank line between any two parts.
RECURSIVE Rendered(_)
Rendered(msgs) ==
    IF msgs = <<>> THEN <<>>
    ELSE IF Len(msgs) = 1
         THEN (IF msgs[1].role = "user" THEN msgs[1].content ELSE <<>>)
    ELSE IF Len(msgs) = 2 /\ msgs[2].role # "user" THEN Labelled(msgs[1])
    ELSE Labelled(msgs[1]) \o <<"\n", "\n">> \o Rendered(Tail(msgs))

IsExample(h) ==
    /\ Len(h.messages) = 3
    /\ h.messages[1].role = "user" /\ h.messages[1].content = Hi
    /\ h.messages[2].role = "assistant" /\ h.messages[2].content = Hello
    /\ h.messages[3].role = "user" /\ h.messages[3].content = HowAreYou

ExampleText ==
    <<"H", "u", "m", "a", "n", ":", " ", "H", "i", "\n", "\n",
      "A", "s", "s", "i", "s", "t", "a", "n", "t", ":", " ",
      "H", "e", "l", "l", "o", "\n", "\n",
      "H", "o", "w", " ", "a", "r", "e", " ", "y", "o", "u", "?">>

\* C18: to_conversation_text returns the empty string for no messages, and
\* otherwise the labelled messages before the last, then the last message's
\* raw content if and only if it is a user message, joined by a blank line;
\* the example history gives the example text.
C18_ConversationText ==
    op = "render" =>
        /\ arg.messages = <<>> => res = <<>>
        /\ res = Rendered(arg.messages)
        /\ IsExample(arg) => res = ExampleText

C18_Witness ==
    /\ op = "render"
    /\ IsExample(arg)
    /\ res = ExampleText

\* C19: a request whose cookie is the text of a UUID issued before gets that
\* text back as its session id, and no cookie is added.
C19_IssuedTokenKept ==
    (op = "session" /\ arg.form = "hyphenated" /\ arg.id \in issued) =>
        /\ res.session_id = arg
        /\ res.added = <<>>

C19_Witness ==
    /\ op = "session"
    /\ arg.form = "hyphenated"
    /\ arg.id \in issued
    /\ Cardinality(issued) >= 2
    /\ res.session_id = arg

\* The cookie is missing or Uuid::parse_str rejects its text.
InvalidCookie(c) == c = NoCookie \/ ~parse_str(c).ok

\* C20: a call with a missing or unparseable cookie returns a UUID in its
\* hyphenated form that was never returned before, adds exactly one
\* session_id cookie carrying it (30 days, http-only, same-site), and touches
\* no file.
C20_FreshOnInvalid ==
    [][(op' = "session" /\ InvalidCookie(arg')) =>
          /\ res'.session_id.form = "hyphenated"
          /\ res'.session_id.id \in UuidPool \ issued
          /\ issued' = issued \cup {res'.session_id.id}
          /\ res'.added = <<SessionCookie(res'.session_id)>>
          /\ res'.added[1].max_age_days = 30
          /\ res'.added[1].http_only
          /\ res'.added[1].same_site \in {"Lax", "Strict"}
          /\ UNCHANGED storeVars]_vars

C20_Witness ==
    /\ op = "session"
    /\ arg = Garbage
    /\ Len(res.added) = 1
    /\ Cardinality(issued) >= 2

\* The text events a stream yields for the chunks sent.
EventsOf(chunks) == [i \in 1..Len(chunks) |-> MessageEvent(chunks[i])]

\* C21: when the save fails the turn still delivers the response: the
\* streaming handler yields the start marker, every chunk as a text event, the
\* text of all deltas among them, and the end marker, with no error event; the
\* synchronous handler answers with the response text and status success.
C21_SaveFailureOnlyLogged ==
    /\ (em_pc = "done" /\ saved \in {"fail", "partial"} /\ ~abort_signal) =>
          /\ events = <<StartEvent>> \o EventsOf(sent) \o <<EndEvent>>
          /\ Concat(sent) = Concat(deltas)
          /\ ~HasErrorEvent
    /\ (em_pc = "sync_done" /\ saved \in {"fail", "partial"}) =>
          res = ChatResponse(response_text(arg), "success")

C21_Witness ==
    /\ em_pc = "done"
    /\ saved = "fail"
    /\ ~abort_signal
    /\ Len(TextEvents) >= 2
    /\ events[Len(events)] = EndEvent

\* C22: an unparseable record is an error of load_from_file while a missing
\* one is Ok with an empty history; both handlers go on with a fresh empty
\* history for the same session id, to which the turn's messages are added.
C22_LoadErrorStartsFresh ==
    /\ ~load_from_file(Corrupt, Sid, now).ok
    /\ load_from_file(Missing, Sid, now).ok
    /\ load_from_file(Missing, Sid, now).history = new(Sid, now)
    /\ (file0 = Corrupt /\ em_pc \notin {"idle", "sync_done"}) =>
          history = add_message(new(Sid, 0), "user", UserMsg, 0)
    /\ (file0 = Corrupt /\ em_pc = "sync_done") =>
          history = add_message(add_message(new(Sid, 0), "user", UserMsg, 0),
                                "assistant", response_text(arg), 0)

C22_Witness ==
    /\ file0 = Corrupt
    /\ Completed
    /\ saved = "ok"
    /\ file.kind = "json"
    /\ file.value.session_id = Sid

\* C23: add_message appends exactly one message, at the end, with the given
\* role and content; the session id, created_at and every earlier message are
\* unchanged; updated_at becomes the new message's timestamp; no file is
\* touched.
C23_AddMessageFrame ==
    [][op' = "add" =>
          LET h == arg'.history
              n == Len(h.messages)
          IN  /\ Len(res'.messages) = n + 1
              /\ SubSeq(res'.messages, 1, n) = h.messages
              /\ res'.messages[n + 1]
                    = ConversationMessage(arg'.role, arg'.content, arg'.t)
              /\ res'.session_id = h.session_id
              /\ res'.created_at = h.created_at
              /\ res'.updated_at = res'.messages[n + 1].timestamp
              /\ UNCHANGED <<file, files>>]_vars

C23_Witness ==
    /\ op = "add"
    /\ Len(arg.history.messages) >= 2
    /\ Len(res.messages) = Len(arg.history.messages) + 1
    /\ res.updated_at # arg.history.updated_at
    /\ res.created_at = T0

\* updated_at is created_at while the history is empty and the timestamp of
\* the last message afterwards, and is never before created_at.
UpdatedAtOk(h) ==
    /\ h.updated_at >= h.created_at
    /\ h.updated_at = IF h.messages = <<>> THEN h.created_at
                      ELSE h.messages[Len(h.messages)].timestamp

C25_Original ==
    (ps_pc = "done" /\ ~rx_alive /\ gen_pc = "done") =>
        full_text = Concat(deltas)

\* The text of stream k is its own: what it accumulated, sent and yielded
\* are its generator's deltas, in order, whoever's abort signal is set.
OwnText(k) ==
    LET st == turns[k]
    IN  /\ Concat(st.sent) \o st.buffer = st.full_text
        /\ st.full_text = Concat(st.deltas)
        /\ \A i \in 1..Len(st.deltas) : st.deltas[i] = StreamDelta(k, i)
        /\ st.events # <<>> =>
              \E n \in 0..Len(st.sent) :
                 IsPrefix(<<StartEvent>> \o EventsOf(SubSeq(st.sent, 1, n)), st.events)
                 /\ Len(st.events) <= n + 3

\* What stream k yields and saves when its own abort signal is never set.
RunsAlone(k) ==
    LET st == turns[k]
    IN  /\ st.pc = "done" =>
              /\ st.events = <<StartEvent>> \o EventsOf(st.sent)
                     \o (IF st.failed THEN <<ErrorEvent(GenErrorText)>> ELSE <<>>)
                     \o <<EndEvent>>
              /\ st.failed <=> st.saved = "none"
        /\ (st.saved # "none" /\ \A j \in StreamIds \ {k} : turns[j].sid # st.sid) =>
              files[st.sid]
                = save_to_file(files0[st.sid],
                      add_message(load_or_new(files0[st.sid], st.sid, 0),
                                  "assistant", Concat(st.deltas), 0),
                      st.saved)

\* C26: each stream has its own abort signal and its own buffer: a stream's
\* signal is set if and only if its own holder set it, its text is made of
\* its own deltas only, and a stream whose signal was not set yields its
\* start marker, all its chunks and its end, and saves its own text to its
\* session's record, whether or not the signal of the other stream is set.
C26_StreamsIsolated ==
    \A k \in StreamIds :
        /\ turns[k].abort_signal = turns[k].set
        /\ OwnText(k)
        /\ (turns[k].pc # "idle" /\ ~turns[k].set) => RunsAlone(k)

\* Stream 1 was cancelled in mid-stream while stream 2, of another session,
\* ran to its end marker and saved its text.
C26_Witness ==
    /\ turns[1].pc = "done" /\ turns[1].set /\ Len(turns[1].sent) >= 1
    /\ turns[1].events[Len(turns[1].events)] # EndEvent
    /\ turns[2].pc = "done" /\ ~turns[2].abort_signal
    /\ turns[2].sid = "s2"
    /\ Len(turns[2].sent) >= 2
    /\ turns[2].events[Len(turns[2].events)] = EndEvent
    /\ turns[2].saved = "ok"
    /\ files["s2"].kind = "json"

\* process_sse_events takes Done from the sse channel in this step.
DoneStep ==
    /\ ps_pc = "select"
    /\ sse_rx # <<>>
    /\ Head(sse_rx).type = "Done"
    /\ sse_rx' = Tail(sse_rx)

\* C27: when Done is taken with the chunk receiver alive, a non-empty buffer
\* is sent as one final chunk (an empty one is not sent), the interval task
\* is aborted, the chunks sent then concatenate to full_text, and once
\* process_sse_events has returned nothing more is sent.
C27_FinalFlushOnDone ==
    [][/\ (DoneStep /\ rx_alive) =>
             /\ sent' = IF buffer # <<>> THEN Append(sent, buffer) ELSE sent
             /\ chunk_rx' = IF buffer # <<>> THEN Append(chunk_rx, buffer) ELSE chunk_rx
             /\ buffer' = <<>>
             /\ interval' \in {"none", "stopped"}
             /\ ps_pc' = "done"
             /\ full_text' = full_text
             /\ Concat(sent') = full_text'
       /\ ps_pc = "done" => (sent' = sent /\ nflush' = nflush /\ ps_pc' = "done")
       /\ interval = "stopped" => (interval' = "stopped" /\ nticks' = nticks)]_vars

\* Done sent the rest after at least one chunk went out on a tick.
C27_Witness ==
    /\ ps_pc = "done"
    /\ rx_alive
    /\ nflush >= 1
    /\ Len(sent) = nflush + 1
    /\ interval = "stopped"
    /\ buffer = <<>>
    /\ Concat(sent) = full_text
    /\ full_text = Concat(deltas)

\* C28: when the sse channel is closed without Done, process_sse_events has
\* sent all the text it accumulated by the time it returns.
C28_Original ==
    (ps_pc = "done" /\ ~sse_open) => Concat(sent) = full_text

\* Done and a flush signal are both ready for the select! of
\* process_sse_events.
BothReady ==
    /\ ps_pc = "select"
    /\ flush_rx > 0
    /\ sse_rx # <<>>
    /\ Head(sse_rx).type = "Done"

\* C29 as stated: when Done and a flush signal are ready together, the flush
\* signal is not the one taken.
C29_Original ==
    [][BothReady => nflush' = nflush]_vars

\* C29, amended: when Done and a flush signal are ready together either is
\* taken. The flush sends a non-empty buffer and clears it, so that Done
\* finds nothing left; Done sends it as the final chunk, aborts the interval
\* task and leaves the flush signal untaken for good. In both orders the
\* chunks sent and the buffer together are full_text, each delta once, and
\* after the interval task is aborted no tick fires.
C29_NoDoubleFlush ==
    [][/\ (BothReady /\ rx_alive) =>
             /\ nflush' = nflush + 1 =>
                   /\ sent' = IF buffer # <<>> THEN Append(sent, buffer) ELSE sent
                   /\ buffer' = <<>>
                   /\ ps_pc' = "select"
             /\ DoneStep =>
                   /\ sent' = IF buffer # <<>> THEN Append(sent, buffer) ELSE sent
                   /\ buffer' = <<>>
                   /\ interval' \in {"none", "stopped"}
                   /\ flush_rx' = flush_rx
       /\ Concat(sent') \o buffer' = full_text'
       /\ (ps_pc = "done" /\ rx_alive) =>
             (nflush' = nflush /\ nticks' = nticks /\ sent' = sent)]_vars

\* Done is queued and a flush signal is pending, with text in the buffer and
\* the receiver alive: select! may take either.
C29_Witness ==
    /\ BothReady
    /\ rx_alive
    /\ buffer # <<>>
    /\ sent # <<>>
    /\ ~abort_signal

\* C30: once the abort signal is set, process_sse_events makes no final
\* flush when Done arrives.
C30_Original ==
    [][(abort_signal /\ DoneStep) => sent' = sent]_vars

\* C31: the interval task is started once, by the step that takes the first
\* delta, and never again; its first tick, and so the first flush on a flush
\* signal, comes no earlier than one full interval after that delta (the
\* immediate first tick is skipped).
C31_TimerStartedOnce ==
    [][/\ timer_started' # timer_started =>
             /\ full_text = <<>> /\ full_text' # <<>>
             /\ timer_started'
             /\ interval = "none" /\ interval' = "wait"
             /\ nextTick' = now + DelayMs
       /\ full_text' # <<>> => timer_started'
       /\ timer_started =>
             /\ interval' # "none"
             /\ full_text' # full_text => (nextTick' = nextTick /\ interval' = interval)
       /\ ~timer_started' => (interval' = "none" /\ nticks' = 0 /\ nflush' = 0)
       /\ nticks' > nticks => now >= schedule[1].at + nticks' * DelayMs
       /\ nflush' > nflush => now >= schedule[1].at + DelayMs]_vars

\* The first chunk went out on the first tick, one interval after the first
\* delta, although more deltas had arrived by then.
C31_Witness ==
    /\ timer_started
    /\ nflush = 1
    /\ Len(sent) = 1
    /\ sent_at[1] = schedule[1].at + DelayMs
    /\ sent[1] = ScriptAt(1) \o ScriptAt(2)

C33_Original ==
    (gen_pc = "done") ~>
        (/\ ps_pc \in {"done", "aborted"}
         /\ ~tx_alive
         /\ ll_pc = "done"
         /\ em_pc \in {"done", "dropped"})

\* C34: call_llm_for_streaming resolves to the assembled text, on success and,
\* marked as aborted, when the abort signal is set (the text assembled up to
\* there), or to the generator's error when it failed without cancellation:
\* every Ok result carries the text assembled by process_sse_events, and every
\* Err result comes without the abort signal having been seen.
C34_Original ==
    /\ call_result.kind = "ok" => call_result.text = full_text
    /\ (call_result.kind = "err" /\ streaming_result.kind = "err") =>
          call_result.text = streaming_result.text

\* The entity html_escape is to give for one character of a chunk.
C35_Entity(c) ==
    IF c = "&" THEN <<"&", "a", "m", "p", ";">>
    ELSE IF c = "<" THEN <<"&", "l", "t", ";">>
    ELSE IF c = ">" THEN <<"&", "g", "t", ";">>
    ELSE IF c = "\"" THEN <<"&", "q", "u", "o", "t", ";">>
    ELSE IF c = "'" THEN <<"&", "#", "x", "2", "7", ";">>
    ELSE <<c>>

\* C35: html_escape replaces & first and then <, >, " and ': the escaped text
\* holds no raw <, >, " or ', every character of the chunk is replaced by its
\* entity exactly once (no entity is escaped again), and the escaped chunks
\* of a text, concatenated, are the escaped text wherever the boundary falls.
C35_EscapeDistributes ==
    op = "html_escape" =>
        /\ \A i \in 1..Len(res.whole) : res.whole[i] \notin {"<", ">", "\"", "'"}
        /\ res.whole = Concat([i \in 1..Len(arg.first \o arg.second) |->
                                 C35_Entity((arg.first \o arg.second)[i])])
        /\ res.first \o res.second = res.whole

C35_Witness ==
    /\ op = "html_escape"
    /\ arg = [first |-> <<"<", "&">>, second |-> <<"'", "a">>]
    /\ res.first = <<"&", "l", "t", ";", "&", "a", "m", "p", ";">>
    /\ res.whole = res.first \o <<"&", "#", "x", "2", "7", ";", "a">>

\* C36: a turn of the synchronous chat handler, whether call_llm succeeded or
\* failed, leaves the loaded history with one user message and then one
\* assistant message added, saved once with both; the assistant message is
\* the response text sent back with status success, which on failure is the
\* error text.
C36_SyncTurnRecordsBoth ==
    em_pc = "sync_done" =>
        LET loaded == load_or_new(file0, Sid, 0).messages
            n == Len(loaded)
        IN  /\ Len(history.messages) = n + 2
            /\ SubSeq(history.messages, 1, n) = loaded
            /\ history.messages[n + 1].role = "user"
            /\ history.messages[n + 1].content = UserMsg
            /\ history.messages[n + 2].role = "assistant"
            /\ history.messages[n + 2].content = res.response
            /\ res.status = "success"
            /\ arg.kind = "ok" => res.response = arg.text
            /\ arg.kind = "err" => res.response = SorryPrefix \o arg.text
            /\ saved = "ok" => file = Stored(history)
            /\ saved = "fail" => file = file0
            /\ saved \in SaveOutcomes
            /\ events = <<>>

C36_Witness ==
    /\ em_pc = "sync_done"
    /\ arg = Err(GenErrorText)
    /\ saved = "ok"
    /\ Len(file0.value.messages) = 1
    /\ Len(file.value.messages) = 3
    /\ file.value.messages[3].content = SorryPrefix \o GenErrorText
    /\ res.response = SorryPrefix \o GenErrorText

\* C37: a streaming turn that ends with an error of the generator and without
\* the abort signal set leaves the session's record as it was: nothing is
\* saved, neither an assistant message nor the error text.
C37_ErrorTurnNotPersisted ==
    (ll_pc = "done" /\ em_pc # "sync_done" /\ streaming_result.kind = "err" /\ ~abort_signal) =>
        /\ call_result = Err(streaming_result.text)
        /\ task_result = call_result
        /\ saved = "none"
        /\ file = file0

C37_Witness ==
    /\ ll_pc = "done"
    /\ em_pc = "done"
    /\ streaming_result.kind = "err"
    /\ ~abort_signal
    /\ Len(sent) = 2
    /\ HasErrorEvent
    /\ file0.kind = "json"
    /\ file = file0

\* C38: the placeholder "[Aborted by client]" that call_llm_for_streaming
\* returns for an aborted turn is never saved as an assistant message and
\* never reaches the client as a text event, whatever the interleaving.
C38_PlaceholderNeverShown ==
    /\ file.kind = "json" =>
          \A i \in 1..Len(file.value.messages) :
              file.value.messages[i].content # Placeholder
    /\ \A i \in 1..Len(events) : events[i] # MessageEvent(Placeholder)
    /\ \A i \in 1..Len(chunk_rx) : chunk_rx[i] # Placeholder
    /\ ll_pc = "persist" => call_result.text # Placeholder

C38_Witness ==
    /\ call_result = Ok(Placeholder)
    /\ ll_pc = "done"
    /\ em_pc = "done"
    /\ Len(TextEvents) = 2
    /\ file0.kind = "json"
    /\ file = file0

\* C39: load_from_file(sid) gives a history whose session_id is sid, also
\* when the stored record carries another id, so that save_to_file on that
\* history writes the file of sid and no other.
C39_LoadKeepsRequestedId ==
    (op = "load_save" /\ res.loaded.ok) =>
        /\ res.loaded.history.session_id = arg.session_id
        /\ res.dir[arg.session_id] = Stored(res.loaded.history)
        /\ \A k \in ApiSids \ {arg.session_id} : res.dir[k] = arg.dir[k]

C39_Witness ==
    /\ op = "load_save"
    /\ arg.session_id = "s2"
    /\ arg.dir["s2"].kind = "json"
    /\ arg.dir["s2"].value.session_id = "s1"
    /\ Len(arg.dir["s2"].value.messages) = 2
    /\ res.loaded.ok
    /\ res.dir["s2"].value.session_id = "s2"
    /\ res.dir["s2"].value.messages = arg.dir["s2"].value.messages
    /\ res.dir["s1"] = Missing

\* process_sse_events has returned.
C40_Returned == ps_pc = "done"

\* C40: once process_sse_events has returned, by Done, by the closed sse
\* channel or by a failed send, the interval task is stopped within one tick:
\* it was aborted, or the one tick it may still take (no later than one
\* period after the return) is followed by a failed send that ends it, and
\* no flush signal is sent any more. At most one flush signal is pending at
\* any time.
C40_IntervalStops ==
    [][/\ flush_rx' <= FlushCap
       /\ (~C40_Returned /\ C40_Returned') =>
             \/ interval' \in {"none", "stopped"}
             \/ interval' = "send" /\ now' = now
             \/ interval' = "wait" /\ nextTick' <= now' + DelayMs
       /\ C40_Returned =>
             /\ flush_rx' = flush_rx
             /\ nflush' = nflush
             /\ now' # now => (interval # "send" /\ (interval = "wait" => now' <= nextTick))
             /\ interval' # interval =>
                   \/ interval = "wait" /\ interval' = "send" /\ now' = now
                   \/ interval = "send" /\ interval' = "stopped" /\ now' = now
             /\ interval' = interval => nextTick' = nextTick]_vars

C40_Witness ==
    /\ C40_Returned
    /\ ~sse_open
    /\ rx_alive
    /\ interval = "stopped"
    /\ nticks = 2
    /\ nflush = 1
    /\ flush_rx = 0
    /\ now = 2 * DelayMs
====
